---- MODULE Spec2Model ----
(***************************************************************************)
(* Model of the client-side YouTubeExtractor (src/unnamed/part_000).       *)
(*                                                                         *)
(* JavaScript strings are TLA+ strings; the string methods the code uses   *)
(* (includes, match, split, parseInt, toString) are computed character by  *)
(* character.  JavaScript objects are functions whose DOMAIN is the set of *)
(* properties that are present.  The value `undefined` stored in a string  *)
(* typed property is the reserved string Undefined; for object typed       *)
(* values undefined and null are the reserved records UndefinedObject and  *)
(* Null.                                                                   *)
(***************************************************************************)
EXTENDS Integers, Sequences, FiniteSets, TLC

(***************************************************************************)
(* Bounds of the model.                                                    *)
(***************************************************************************)
MaxCodecs == 2        \* longest codecs="..." token list that is enumerated
MaxLateEvents == 1    \* iframe events delivered after the iframe was detached
MaxScripts == 2       \* <script> elements in an accessible iframe document
MaxFormats == 2       \* longest adaptiveFormats / formats list that is enumerated
MaxOps == 2           \* calls of handlers that set loading

(***************************************************************************)
(* JavaScript values.                                                      *)
(***************************************************************************)
Undefined == "<undefined>"        \* undefined where a string is expected
UndefinedObject == [undefined |-> TRUE]   \* undefined where an object is expected
Null == [null |-> TRUE]           \* null where an object is expected

Has(o, f) == f \in DOMAIN o

\* o.f for a string property, undefined when the property is absent
Get(o, f) == IF Has(o, f) THEN o[f] ELSE Undefined

\* truthiness of a string property: present and not the empty string
TruthyStr(o, f) == Has(o, f) /\ o[f] # "" /\ o[f] # Undefined

\* truthiness of a number property: present and not 0
TruthyNum(o, f) == Has(o, f) /\ o[f] # 0

Char(s, i) == SubSeq(s, i, i)

\* String.prototype.includes
Includes(s, sub) ==
  \E i \in 1..(Len(s) - Len(sub) + 1) : SubSeq(s, i, i + Len(sub) - 1) = sub

\* index of the first occurrence of sub in s, 0 when there is none
IndexOf(s, sub) ==
  LET hits == {i \in 1..(Len(s) - Len(sub) + 1) : SubSeq(s, i, i + Len(sub) - 1) = sub}
  IN  IF hits = {} THEN 0 ELSE CHOOSE i \in hits : \A j \in hits : i <= j

\* String.prototype.split with a non-empty separator
RECURSIVE Split(_, _)
Split(s, sep) ==
  LET i == IndexOf(s, sep)
  IN  IF i = 0 THEN <<s>>
      ELSE <<SubSeq(s, 1, i - 1)>> \o Split(SubSeq(s, i + Len(sep), Len(s)), sep)

DigitChar(d) == CASE d = 0 -> "0" [] d = 1 -> "1" [] d = 2 -> "2" [] d = 3 -> "3"
                  [] d = 4 -> "4" [] d = 5 -> "5" [] d = 6 -> "6" [] d = 7 -> "7"
                  [] d = 8 -> "8" [] d = 9 -> "9"

\* Number.prototype.toString / template-literal conversion of an integer
RECURSIVE NumToString(_)
NumToString(n) ==
  IF n < 0 THEN "-" \o NumToString(0 - n)
  ELSE IF n < 10 THEN DigitChar(n)
  ELSE NumToString(n \div 10) \o DigitChar(n % 10)

Digits == {"0", "1", "2", "3", "4", "5", "6", "7", "8", "9"}

\* value of the longest prefix of decimal digits of s, read left to right
RECURSIVE DigitsValue(_, _)
DigitsValue(s, acc) ==
  LET DigitVal(c) == CHOOSE d \in 0..9 : DigitChar(d) = c
  IN  IF Len(s) = 0 \/ Char(s, 1) \notin Digits THEN acc
      ELSE DigitsValue(SubSeq(s, 2, Len(s)), acc * 10 + DigitVal(Char(s, 1)))

\* parseInt(s) for a decimal string: leading white space is skipped, a sign
\* is accepted, the digits up to the first other character are read; NaN
\* when no digit is found or the argument is undefined
RECURSIVE parseInt(_)
parseInt(s) ==
  LET Whitespace == {" ", "\t", "\n"}
  IN  IF s = Undefined \/ Len(s) = 0 THEN [nan |-> TRUE, val |-> 0]
      ELSE IF Char(s, 1) \in Whitespace THEN parseInt(SubSeq(s, 2, Len(s)))
      ELSE LET neg  == Char(s, 1) = "-"
               rest == IF Char(s, 1) \in {"-", "+"} THEN SubSeq(s, 2, Len(s)) ELSE s
           IN  IF Len(rest) = 0 \/ Char(rest, 1) \notin Digits
               THEN [nan |-> TRUE, val |-> 0]
               ELSE [nan |-> FALSE,
                     val |-> IF neg THEN 0 - DigitsValue(rest, 0) ELSE DigitsValue(rest, 0)]

NoMatch == "<no match>"
Quote == "\""
CodecsPrefix == "codecs=\""

\* the capture group of mimeType.match(/codecs="([^"]+)"/), NoMatch when the
\* regular expression does not match
CodecsMatch(s) ==
  LET n == Len(CodecsPrefix)
      \* the regex matches at i: the prefix, one or more non-quote characters, a quote
      closing(i) == {k \in (i + n + 1)..Len(s) :
                       /\ Char(s, k) = Quote
                       /\ \A j \in (i + n)..(k - 1) : Char(s, j) # Quote}
      starts == {i \in 1..(Len(s) - n + 1) :
                   SubSeq(s, i, i + n - 1) = CodecsPrefix /\ closing(i) # {}}
  IN  IF starts = {} THEN NoMatch
      ELSE LET i == CHOOSE a \in starts : \A b \in starts : a <= b
               k == CHOOSE c \in closing(i) : TRUE
           IN  SubSeq(s, i + n, k - 1)

(***************************************************************************)
(* getExtensionFromMime (lines 268-278).  mime is the raw format entry's   *)
(* mimeType, Undefined when the property is absent.                        *)
(***************************************************************************)
\* getExtensionFromMime with the tests of lines 271 and 272 exchanged
getExtensionFromMime_WebmFirst(mimeType) ==
  IF mimeType = Undefined \/ mimeType = "" THEN "unknown"
  ELSE IF Includes(mimeType, "webm") THEN "webm"
  ELSE IF Includes(mimeType, "mp4") THEN "mp4"
  ELSE IF Includes(mimeType, "3gpp") THEN "3gp"
  ELSE IF Includes(mimeType, "audio/mp4") THEN "m4a"
  ELSE IF Includes(mimeType, "audio/webm") THEN "webm"
  ELSE "unknown"

\* getExtensionFromMime with the tests of lines 274-275 moved before line 271
getExtensionFromMime_AudioFirst(mimeType) ==
  IF mimeType = Undefined \/ mimeType = "" THEN "unknown"
  ELSE IF Includes(mimeType, "audio/mp4") THEN "m4a"
  ELSE IF Includes(mimeType, "audio/webm") THEN "webm"
  ELSE IF Includes(mimeType, "mp4") THEN "mp4"
  ELSE IF Includes(mimeType, "webm") THEN "webm"
  ELSE IF Includes(mimeType, "3gpp") THEN "3gp"
  ELSE "unknown"

getExtensionFromMime(mimeType) ==
  IF mimeType = Undefined \/ mimeType = "" THEN "unknown"
  ELSE IF Includes(mimeType, "mp4") THEN "mp4"
  ELSE IF Includes(mimeType, "webm") THEN "webm"
  ELSE IF Includes(mimeType, "3gpp") THEN "3gp"
  ELSE IF Includes(mimeType, "audio/mp4") THEN "m4a"
  ELSE IF Includes(mimeType, "audio/webm") THEN "webm"
  ELSE "unknown"

(***************************************************************************)
(* parseFormat (lines 226-266), split along its local variables.           *)
(***************************************************************************)
hasVideo(format) == Has(format, "mimeType") /\ Includes(format.mimeType, "video")

hasAudio(format) == Has(format, "mimeType") /\ Includes(format.mimeType, "audio")

\* const codecs = mimeMatch ? mimeMatch[1].split(', ') : []
codecs(format) ==
  IF Has(format, "mimeType") /\ CodecsMatch(format.mimeType) # NoMatch
  THEN Split(CodecsMatch(format.mimeType), ", ")
  ELSE <<>>

\* codecs[i] with JavaScript's 0-based index i; undefined past the end
CodecAt(cs, i) == IF i + 1 <= Len(cs) THEN cs[i + 1] ELSE Undefined

vcodec(format) ==
  IF hasVideo(format) /\ Len(codecs(format)) > 0
  THEN CodecAt(codecs(format), 0)
  ELSE "none"

\* acodec that always takes the second token (line 241 without the
\* codecs.length > 1 test)
acodec_SecondOnly(format) ==
  IF hasAudio(format) THEN CodecAt(codecs(format), 1) ELSE "none"

acodec(format) ==
  IF hasAudio(format)
  THEN IF Len(codecs(format)) > 1 THEN CodecAt(codecs(format), 1)
                                  ELSE CodecAt(codecs(format), 0)
  ELSE "none"

\* resolution with the two numbers of line 247 exchanged
resolution_HeightFirst(format) ==
  IF TruthyNum(format, "height") /\ TruthyNum(format, "width")
  THEN NumToString(format.height) \o "x" \o NumToString(format.width)
  ELSE IF TruthyNum(format, "height")
  THEN NumToString(format.height) \o "p"
  ELSE "audio only"

resolution(format) ==
  IF TruthyNum(format, "height") /\ TruthyNum(format, "width")
  THEN NumToString(format.width) \o "x" \o NumToString(format.height)
  ELSE IF TruthyNum(format, "height")
  THEN NumToString(format.height) \o "p"
  ELSE "audio only"

\* format.qualityLabel || format.audioQuality
qualityOf(format) ==
  IF TruthyStr(format, "qualityLabel") THEN format.qualityLabel
  ELSE Get(format, "audioQuality")

\* parseFormat with audioQuality tried before qualityLabel in format_note
parseFormat_AudioQualityFirst(format, type) ==
  [ format_id   |-> IF Has(format, "itag") THEN NumToString(format.itag) ELSE "unknown",
    ext         |-> getExtensionFromMime(Get(format, "mimeType")),
    resolution  |-> resolution(format),
    fps         |-> IF TruthyNum(format, "fps") THEN format.fps ELSE 0,
    vcodec      |-> vcodec(format),
    acodec      |-> acodec(format),
    filesize    |-> IF TruthyStr(format, "contentLength")
                    THEN parseInt(format.contentLength)
                    ELSE UndefinedObject,
    url         |-> Get(format, "url"),
    has_video   |-> hasVideo(format),
    has_audio   |-> hasAudio(format),
    format_note |-> type \o " - " \o
                    (IF TruthyStr(format, "audioQuality") THEN format.audioQuality
                     ELSE IF TruthyStr(format, "qualityLabel") THEN format.qualityLabel
                     ELSE "unknown"),
    quality     |-> qualityOf(format) ]

parseFormat(format, type) ==
  [ format_id   |-> IF Has(format, "itag") THEN NumToString(format.itag) ELSE "unknown",
    ext         |-> getExtensionFromMime(Get(format, "mimeType")),
    resolution  |-> resolution(format),
    fps         |-> IF TruthyNum(format, "fps") THEN format.fps ELSE 0,
    vcodec      |-> vcodec(format),
    acodec      |-> acodec(format),
    filesize    |-> IF TruthyStr(format, "contentLength")
                    THEN parseInt(format.contentLength)
                    ELSE UndefinedObject,
    url         |-> Get(format, "url"),
    has_video   |-> hasVideo(format),
    has_audio   |-> hasAudio(format),
    format_note |-> type \o " - " \o
                    (IF TruthyStr(format, "qualityLabel") THEN format.qualityLabel
                     ELSE IF TruthyStr(format, "audioQuality") THEN format.audioQuality
                     ELSE "unknown"),
    quality     |-> qualityOf(format) ]

(***************************************************************************)
(* Raw format entries the format parser is checked on.                     *)
(***************************************************************************)
MimeBases == {"video/mp4", "video/webm", "video/3gpp", "audio/mp4", "audio/webm",
              "text/plain", "video/mp4; audio=1", "video/webm; alt=mp4"}

CodecTokens == {"avc1", "mp4a", "opus"}

RECURSIVE Join(_, _)
Join(toks, sep) ==
  IF Len(toks) = 0 THEN ""
  ELSE IF Len(toks) = 1 THEN toks[1]
  ELSE toks[1] \o sep \o Join(Tail(toks), sep)

MimeTypes ==
  LET TokenLists == UNION {[1..n -> CodecTokens] : n \in 1..MaxCodecs}
      \* the part of a mimeType after the type/subtype
      CodecParams ==
        {"", "; codecs=\"\""} \cup {"; codecs=\"" \o Join(ts, ", ") \o "\"" : ts \in TokenLists}
  IN  {b \o p : b \in MimeBases, p \in CodecParams} \cup {""}

\* an object with the properties of base and, when present, property f = v
Opt(base, f, vals) == {base} \cup {[k \in DOMAIN base \cup {f} |->
                                      IF k = f THEN v ELSE base[k]] : v \in vals}

EmptyObject == [k \in {} |-> 0]

LabelledFormats ==
  LET Itags == {0, 18, 140}
      QualityLabels == {"", "720p"}
      AudioQualities == {"", "AUDIO_QUALITY_MEDIUM"}
      \* entries that differ in itag, qualityLabel and audioQuality only
      WithItag == Opt(EmptyObject, "itag", Itags)
      WithQualityLabel == UNION {Opt(o, "qualityLabel", QualityLabels) : o \in WithItag}
  IN  UNION {Opt(o, "audioQuality", AudioQualities) : o \in WithQualityLabel}

RawFormats ==
  LET Heights == {0, 360, 720, 1080}
      Widths == {0, 640, 1920}
      WithMime == Opt(EmptyObject, "mimeType", MimeTypes)
      WithHeight == UNION {Opt(o, "height", Heights) : o \in WithMime}
      WithWidth == UNION {Opt(o, "width", Widths) : o \in WithHeight}
  IN  UNION {Opt(o, "itag", {18}) : o \in WithWidth} \cup LabelledFormats

FormatTypes == {"adaptive", "progressive"}

(***************************************************************************)
(* extractVideoId (lines 280-292).  Each pattern is a list of alternative  *)
(* markers followed by the group ([^&\n?#]+).                              *)
(***************************************************************************)
NullString == "<null>"            \* null where a string is expected

WatchPattern == <<"youtube.com/watch?v=", "youtu.be/", "youtube.com/embed/">>
VPattern == <<"youtube.com/v/">>

\* length of the longest prefix of s without a character of StopChars
RunLength(s) ==
  LET StopChars == {"&", "\n", "?", "#"}
  IN  LET stops == {j \in 1..Len(s) : Char(s, j) \in StopChars}
      IN  IF stops = {} THEN Len(s) ELSE (CHOOSE j \in stops : \A k \in stops : j <= k) - 1

\* the marker is found at position i and one or more group characters follow
MarkerAt(url, i, marker) ==
  /\ i + Len(marker) - 1 <= Len(url)
  /\ SubSeq(url, i, i + Len(marker) - 1) = marker
  /\ RunLength(SubSeq(url, i + Len(marker), Len(url))) >= 1

\* match[1] of url.match(pattern): the group of the leftmost match, the
\* alternatives tried in order; NoMatch when the pattern does not match
PatternGroup(url, pattern) ==
  LET at(i) == {k \in 1..Len(pattern) : MarkerAt(url, i, pattern[k])}
      hits  == {i \in 1..Len(url) : at(i) # {}}
  IN  IF hits = {} THEN NoMatch
      ELSE LET i    == CHOOSE a \in hits : \A b \in hits : a <= b
               k    == CHOOSE a \in at(i) : \A b \in at(i) : a <= b
               rest == SubSeq(url, i + Len(pattern[k]), Len(url))
           IN  SubSeq(rest, 1, RunLength(rest))

\* extractVideoId with the two patterns of lines 282 and 283 exchanged
extractVideoId_VPatternFirst(url) ==
  IF PatternGroup(url, VPattern) # NoMatch THEN PatternGroup(url, VPattern)
  ELSE IF PatternGroup(url, WatchPattern) # NoMatch THEN PatternGroup(url, WatchPattern)
  ELSE NullString

extractVideoId(url) ==
  IF PatternGroup(url, WatchPattern) # NoMatch THEN PatternGroup(url, WatchPattern)
  ELSE IF PatternGroup(url, VPattern) # NoMatch THEN PatternGroup(url, VPattern)
  ELSE NullString

\* urls extractVideoId is checked on: prefix, marker, id, suffix
UrlPrefixes == {"", "https://", "https://www."}
UrlMarkers == {"youtube.com/watch?v=", "youtu.be/", "youtube.com/embed/",
               "youtube.com/v/", "youtube.com/playlist?list=", "vimeo.com/"}
UrlIds == {"", "X", "abc123", "dQw4w9WgXcQ", "a b!"}
UrlSuffixes == {"", "&t=10", "?si=x", "#frag", "\nrest", "&feature=youtu.be/zzz"}
Urls == {p \o m \o i \o x : p \in UrlPrefixes, m \in UrlMarkers, i \in UrlIds,
                              x \in UrlSuffixes}

(***************************************************************************)
(* parsePlayerResponse (lines 191-224).  A call either returns a value or  *)
(* throws an Error with a message.                                         *)
(***************************************************************************)
Returns(v) == [threw |-> FALSE, value |-> v]
Throws(msg) == [threw |-> TRUE, error |-> msg]

\* streamingData?.adaptiveFormats / streamingData?.formats as a sequence,
\* empty when any part of the path is absent
FormatList(playerResponse, list) ==
  IF Has(playerResponse, "streamingData") /\ Has(playerResponse.streamingData, list)
  THEN playerResponse.streamingData[list]
  ELSE <<>>

ParseAll(list, type) == [i \in 1..Len(list) |-> parseFormat(list[i], type)]

\* videoDetails.thumbnail?.thumbnails?.[0]?.url || ''
thumbnailOf(videoDetails) ==
  IF /\ Has(videoDetails, "thumbnail")
     /\ Has(videoDetails.thumbnail, "thumbnails")
     /\ Len(videoDetails.thumbnail.thumbnails) > 0
     /\ TruthyStr(videoDetails.thumbnail.thumbnails[1], "url")
  THEN videoDetails.thumbnail.thumbnails[1].url
  ELSE ""

\* parseInt(videoDetails.lengthSeconds) || 0
durationOf(videoDetails) ==
  LET n == parseInt(Get(videoDetails, "lengthSeconds"))
  IN  IF n.nan THEN 0 ELSE n.val

\* parsePlayerResponse that also insists on streamingData
parsePlayerResponse_RequiresStreamingData(playerResponse) ==
  IF ~Has(playerResponse, "videoDetails") \/ ~Has(playerResponse, "streamingData")
  THEN Throws("No video details found")
  ELSE LET videoDetails == playerResponse.videoDetails
       IN  Returns(
             [ id            |-> Get(videoDetails, "videoId"),
               title         |-> Get(videoDetails, "title"),
               duration      |-> durationOf(videoDetails),
               uploader      |-> Get(videoDetails, "author"),
               thumbnail     |-> thumbnailOf(videoDetails),
               formats       |-> ParseAll(FormatList(playerResponse, "adaptiveFormats"), "adaptive")
                                 \o ParseAll(FormatList(playerResponse, "formats"), "progressive"),
               streamingData |-> playerResponse.streamingData ])

\* parsePlayerResponse with the loops of lines 202-206 and 209-213 exchanged
parsePlayerResponse_ProgressiveFirst(playerResponse) ==
  IF ~Has(playerResponse, "videoDetails")
  THEN Throws("No video details found")
  ELSE LET videoDetails == playerResponse.videoDetails
       IN  Returns(
             [ id            |-> Get(videoDetails, "videoId"),
               title         |-> Get(videoDetails, "title"),
               duration      |-> durationOf(videoDetails),
               uploader      |-> Get(videoDetails, "author"),
               thumbnail     |-> thumbnailOf(videoDetails),
               formats       |-> ParseAll(FormatList(playerResponse, "formats"), "progressive")
                                 \o ParseAll(FormatList(playerResponse, "adaptiveFormats"), "adaptive"),
               streamingData |-> IF Has(playerResponse, "streamingData")
                                 THEN playerResponse.streamingData
                                 ELSE UndefinedObject ])

parsePlayerResponse(playerResponse) ==
  IF ~Has(playerResponse, "videoDetails")
  THEN Throws("No video details found")
  ELSE LET videoDetails == playerResponse.videoDetails
       IN  Returns(
             [ id            |-> Get(videoDetails, "videoId"),
               title         |-> Get(videoDetails, "title"),
               duration      |-> durationOf(videoDetails),
               uploader      |-> Get(videoDetails, "author"),
               thumbnail     |-> thumbnailOf(videoDetails),
               formats       |-> ParseAll(FormatList(playerResponse, "adaptiveFormats"), "adaptive")
                                 \o ParseAll(FormatList(playerResponse, "formats"), "progressive"),
               streamingData |-> IF Has(playerResponse, "streamingData")
                                 THEN playerResponse.streamingData
                                 ELSE UndefinedObject ])

(***************************************************************************)
(* Player responses the two strategies can receive.                        *)
(***************************************************************************)
Format18 == [itag |-> 18, mimeType |-> "video/mp4; codecs=\"avc1, mp4a\"",
             height |-> 360, width |-> 640]

Format140 == [itag |-> 140, mimeType |-> "audio/mp4; codecs=\"mp4a\"",
              audioQuality |-> "AUDIO_QUALITY_MEDIUM"]

DetailsV1 == [videoId |-> "v1", title |-> "T", lengthSeconds |-> "125", author |-> "A"]

StreamingDatas ==
  { [formats |-> <<Format18>>],
    [adaptiveFormats |-> <<Format140>>, formats |-> <<Format18>>],
    [adaptiveFormats |-> <<>>, formats |-> <<>>] }

PlayerResponses ==
  {EmptyObject, [videoDetails |-> DetailsV1]}
    \cup {[streamingData |-> sd] : sd \in StreamingDatas}
    \cup {[videoDetails |-> DetailsV1, streamingData |-> sd] : sd \in StreamingDatas}

(***************************************************************************)
(* Player responses the normalizer is checked on as a function.            *)
(***************************************************************************)

VideoDetailsObjects ==
  LET LengthSeconds == {"125", "0", "abc", "-5", "12abc", ""}
      ThumbnailObjects ==
        { EmptyObject,
          [thumbnails |-> <<>>],
          [thumbnails |-> <<[width |-> 120]>>],
          [thumbnails |-> <<[url |-> "u1"], [url |-> "u2"]>>] }
      DetailsBase == [videoId |-> "v1", title |-> "T", author |-> "A"]
  IN  UNION {Opt(d, "thumbnail", ThumbnailObjects) :
               d \in Opt(DetailsBase, "lengthSeconds", LengthSeconds)}

FormatLists ==
  LET FormatPool == {Format18, Format140}
  IN  UNION {[1..n -> FormatPool] : n \in 0..MaxFormats}

ResponseInputs ==
  LET StreamingDataObjects ==
        UNION {Opt(sd, "formats", FormatLists) :
                 sd \in Opt(EmptyObject, "adaptiveFormats", FormatLists)}
  IN  UNION {Opt(r, "streamingData", StreamingDataObjects) :
               r \in Opt(EmptyObject, "videoDetails", VideoDetailsObjects)}

(***************************************************************************)
(* extractFromInnerTube (lines 143-189): what the function returns for     *)
(* each way its awaits can settle.  Its try/catch turns every exception    *)
(* into the return value null; `caught` records the exception that was     *)
(* logged at line 186, `thrown` an exception that leaves the function.     *)
(***************************************************************************)
NoError == ""

Outcome(info, caught, thrown) == [info |-> info, caught |-> caught, thrown |-> thrown]

\* fetch() rejects (line 147)
InnerTubeFetchFailed == Outcome(Null, "TypeError: Failed to fetch", NoError)

\* InnerTubeNotOk without the try/catch of lines 144 and 185: the Error of
\* line 171 leaves extractFromInnerTube
InnerTubeNotOk_Rethrows(status, bodyRead) ==
  Outcome(Null, NoError, "InnerTube API failed: " \o NumToString(status))

\* InnerTubeNotOk with an Error message that leaves out response.status
InnerTubeNotOk_NoStatus(status, bodyRead) ==
  IF bodyRead
  THEN Outcome(Null, "InnerTube API failed", NoError)
  ELSE Outcome(Null, "TypeError: Failed to read body", NoError)

\* !response.ok (lines 168-172); the body has been read or reading it failed
InnerTubeNotOk(status, bodyRead) ==
  IF bodyRead
  THEN Outcome(Null, "InnerTube API failed: " \o NumToString(status), NoError)
  ELSE Outcome(Null, "TypeError: Failed to read body", NoError)

\* response.json() rejects (line 174)
InnerTubeBadJson == Outcome(Null, "SyntaxError: Unexpected token", NoError)

\* InnerTubeData without the test of lines 177-180
InnerTubeData_NoCheck(data) ==
  LET r == parsePlayerResponse(data)
  IN  IF r.threw THEN Outcome(Null, r.error, NoError)
      ELSE Outcome(r.value, NoError, NoError)

\* InnerTubeData that treats a VideoInfo without formats as a failure
InnerTubeData_RequiresFormats(data) ==
  IF ~Has(data, "videoDetails") THEN Outcome(Null, NoError, NoError)
  ELSE LET r == parsePlayerResponse(data)
       IN  IF r.threw THEN Outcome(Null, r.error, NoError)
           ELSE IF r.value.formats = <<>> THEN Outcome(Null, NoError, NoError)
           ELSE Outcome(r.value, NoError, NoError)

\* response.json() resolves with data (lines 174-184)
InnerTubeData(data) ==
  IF ~Has(data, "videoDetails") THEN Outcome(Null, NoError, NoError)
  ELSE LET r == parsePlayerResponse(data)
       IN  IF r.threw THEN Outcome(Null, r.error, NoError)
           ELSE Outcome(r.value, NoError, NoError)

(***************************************************************************)
(* extractFromEmbed (lines 76-141).  The state of one run is a record e:   *)
(*   iframe  "none" | "attached" | "detached"  (child of document.body?)   *)
(*   timer   "none" | "pending" | "fired" | "cleared"                      *)
(*   promise "none" | "pending" | "resolved"                              *)
(*   value   what the promise was resolved with                            *)
(*   removed number of removeChild calls that detached the iframe          *)
(*   notFound number of removeChild calls that threw NotFoundError         *)
(*   escaped callbacks an exception escaped from                           *)
(***************************************************************************)
\* document.body.removeChild(iframe) throws NotFoundError unless the iframe
\* is a child of document.body
CanRemove(e) == e.iframe = "attached"

RemoveChild(e) == [e EXCEPT !.iframe = "detached", !.removed = @ + 1]

\* removeChild called while the iframe is not a child of document.body
RemoveFails(e) == [e EXCEPT !.notFound = @ + 1]

ClearTimeout(e) == IF e.timer = "pending" THEN [e EXCEPT !.timer = "cleared"] ELSE e

\* resolve(v): only the first call settles the promise
Resolve(e, v) ==
  IF e.promise = "pending" THEN [e EXCEPT !.promise = "resolved", !.value = v] ELSE e

Escape(e, from) == [e EXCEPT !.escaped = @ \cup {from}]

\* the setTimeout callback (lines 85-88)
TimeoutCallback(e) ==
  LET e1 == [e EXCEPT !.timer = "fired"]
  IN  IF CanRemove(e1) THEN Resolve(RemoveChild(e1), Null)
      ELSE Escape(RemoveFails(e1), "timeout")

\* iframe.onerror (lines 131-135)
OnError(e) ==
  LET e1 == ClearTimeout(e)
  IN  IF CanRemove(e1) THEN Resolve(RemoveChild(e1), Null)
      ELSE Escape(RemoveFails(e1), "onerror")

\* the catch block of iframe.onload (lines 124-128)
OnLoadCatch(e) ==
  LET e1 == ClearTimeout(e)
  IN  IF CanRemove(e1) THEN Resolve(RemoveChild(e1), Null)
      ELSE Escape(RemoveFails(e1), "onload")

\* OnLoadNoDocument without the clearTimeout of line 95
OnLoadNoDocument_KeepsTimer(e) ==
  IF CanRemove(e) THEN Resolve(RemoveChild(e), Null)
  ELSE OnLoadCatch(RemoveFails(e))

\* the !iframeDoc branch of iframe.onload (lines 94-99)
OnLoadNoDocument(e) ==
  LET e1 == ClearTimeout(e)
  IN  IF CanRemove(e1) THEN Resolve(RemoveChild(e1), Null)
      ELSE OnLoadCatch(RemoveFails(e1))

\* A <script> of the iframe document, as far as the loop of lines 105-114
\* looks at it: whether its text includes 'var ytInitialPlayerResponse',
\* whether the regular expression matches, and what JSON.parse makes of the
\* captured text.
Scripts ==
  { [marker |-> FALSE, match |-> FALSE, json |-> FALSE, data |-> EmptyObject],
    [marker |-> TRUE,  match |-> FALSE, json |-> FALSE, data |-> EmptyObject],
    [marker |-> TRUE,  match |-> TRUE,  json |-> FALSE, data |-> EmptyObject] }
  \cup {[marker |-> TRUE, match |-> TRUE, json |-> TRUE, data |-> d] : d \in PlayerResponses}

\* the loop of lines 103-114: playerData after the loop, or the exception
\* of JSON.parse
RECURSIVE ScanScripts(_)
ScanScripts(scripts) ==
  IF Len(scripts) = 0 THEN Returns(Null)
  ELSE LET script == Head(scripts)
       IN  IF script.marker /\ script.match
           THEN IF script.json THEN Returns(script.data)
                ELSE Throws("SyntaxError: Unexpected token")
           ELSE ScanScripts(Tail(scripts))

\* lines 116-123, after the loop left playerData
OnLoadFinish(e, playerData) ==
  LET e1 == ClearTimeout(e)
  IN  IF ~CanRemove(e1) THEN OnLoadCatch(RemoveFails(e1))
      ELSE LET e2 == RemoveChild(e1)
           IN  IF playerData = Null THEN Resolve(e2, Null)
               ELSE LET r == parsePlayerResponse(playerData)
                    IN  IF r.threw THEN OnLoadCatch(e2)
                        ELSE Resolve(e2, r.value)

\* What the load handler finds behind iframe.contentDocument ||
\* iframe.contentWindow?.document: nothing, a SecurityError, or a document
\* with its scripts.
NoDocument == [kind |-> "none", scripts |-> <<>>]
IframeDocuments ==
  LET DeniedDocument == [kind |-> "denied", scripts |-> <<>>]
  IN  {NoDocument, DeniedDocument}
        \cup {[kind |-> "document", scripts |-> ss] :
                ss \in UNION {[1..n -> Scripts] : n \in 0..MaxScripts}}

\* iframe.onload (lines 90-129)
OnLoad(e, doc) ==
  IF doc.kind = "denied" THEN OnLoadCatch(e)
  ELSE IF doc.kind = "none" THEN OnLoadNoDocument(e)
  ELSE LET scan == ScanScripts(doc.scripts)
       IN  IF scan.threw THEN OnLoadCatch(e)
           ELSE OnLoadFinish(e, scan.value)

\* lines 79-88: the iframe is attached and the timer armed, or creating or
\* attaching the iframe throws and line 139 returns null
EmbedIdle ==
  [iframe |-> "none", timer |-> "none", promise |-> "none", value |-> Null,
   removed |-> 0, notFound |-> 0, escaped |-> {}]

EmbedStart(domOk) ==
  IF domOk
  THEN [EmbedIdle EXCEPT !.iframe = "attached", !.timer = "pending", !.promise = "pending"]
  ELSE [EmbedIdle EXCEPT !.promise = "resolved"]

(***************************************************************************)
(* State.                                                                  *)
(***************************************************************************)
VARIABLES
  pfFormat,     \* parseFormat: the raw entry passed in
  pfType,       \* parseFormat: the source tag passed in
  pfResult,     \* parseFormat: the Format returned, NotCalled before the call
  idUrl,        \* extractVideoId: the url passed in
  idResult,     \* extractVideoId: the id or null returned, NotCalled before the call
  prInput,      \* parsePlayerResponse: the player response passed in
  prResult,     \* parsePlayerResponse: what it returned or threw, NotCalled before
  pc,           \* extractVideoInfo: "idle", "innertube", "embed", "resolved", "rejected"
  videoId,      \* extractVideoInfo: its argument
  result,       \* extractVideoInfo: the VideoInfo its promise resolved with
  error,        \* extractVideoInfo: the message of the Error its promise rejected with
  pcInner,      \* extractFromInnerTube: "none", "fetch", "text", "json", "returned"
  httpStatus,   \* extractFromInnerTube: response.status, 0 before the response
  innerTube,    \* extractFromInnerTube: its Outcome once it has returned
  responseData, \* extractFromInnerTube: data of line 174, Null before response.json()
  fetchCount,   \* number of fetch() calls issued
  iframeCount,  \* number of iframes attached to document.body
  embed,        \* extractFromEmbed: the record described above
  lateEvents,   \* iframe events delivered after the iframe was detached
  mode,         \* page: the download mode selected (line 60)
  url,          \* page: the text of the URL input (line 64)
  loading,      \* page: line 65
  uiError,      \* page: the state named error (line 66)
  uiStatus,     \* page: the state named status (line 67)
  videoInfo,    \* page: line 70, Null before an analysis
  selectedFrame,  \* page: line 75, NullString when no frame is selected
  playlistVideos, \* page: the ids of line 97; all of them are selected
  liveInfo,     \* page: line 103, Null before an analysis in live mode
  ops,          \* page: the calls of handlers that set loading and have not ended
  opCount,      \* page: the number of such calls so far
  pollers,      \* page: the progress pollers that were started
  backend       \* backend: the status of each download a poller asks about

parseVars == <<pfFormat, pfType, pfResult>>
idVars == <<idUrl, idResult>>
prVars == <<prInput, prResult>>
topVars == <<pc, videoId, result, error>>
innerVars == <<pcInner, httpStatus, innerTube, responseData, fetchCount>>
embedVars == <<iframeCount, embed, lateEvents>>
uiVars == <<mode, url, loading, uiError, uiStatus, videoInfo, selectedFrame,
            playlistVideos, liveInfo, ops, opCount, pollers, backend>>
vars == <<pfFormat, pfType, pfResult, idUrl, idResult, prInput, prResult, pc, videoId,
          result, error, pcInner, httpStatus, innerTube, responseData, fetchCount,
          iframeCount, embed, lateEvents, mode, url, loading, uiError, uiStatus,
          videoInfo, selectedFrame, playlistVideos, liveInfo, ops, opCount, pollers,
          backend>>

NotCalled == [called |-> FALSE]

VideoIds == {"v1", "dQw4w9WgXcQ"}
HttpStatuses == {200, 403, 500}

ExtractorIdle ==
  LET NoOutcome == Outcome(Null, NoError, NoError)
  IN  /\ pc = "idle"
      /\ videoId = ""
      /\ result = Null
      /\ error = NoError
      /\ pcInner = "none"
      /\ httpStatus = 0
      /\ innerTube = NoOutcome
      /\ responseData = Null
      /\ fetchCount = 0
      /\ iframeCount = 0
      /\ embed = EmbedIdle
      /\ lateEvents = 0

\* no call of parseFormat in progress
ParseIdle ==
  /\ pfFormat = EmptyObject
  /\ pfType = "adaptive"
  /\ pfResult = NotCalled

\* no call of extractVideoId in progress
IdIdle ==
  /\ idUrl = ""
  /\ idResult = NotCalled

\* no call of parsePlayerResponse in progress
ResponseIdle ==
  /\ prInput = EmptyObject
  /\ prResult = NotCalled

\* the page as useState initialises it (lines 60-108), nothing typed yet
PageIdle ==
  /\ mode = "video"
  /\ url = ""
  /\ loading = FALSE
  /\ uiError = ""
  /\ uiStatus = ""
  /\ videoInfo = Null
  /\ selectedFrame = NullString
  /\ playlistVideos = <<>>
  /\ liveInfo = Null
  /\ ops = {}
  /\ opCount = 0
  /\ pollers = {}
  /\ backend = EmptyObject

(***************************************************************************)
(* Specification of the format parser as a function: the arguments are     *)
(* drawn in the initial state and the call returns the Format.             *)
(***************************************************************************)
ParseInit ==
  /\ pfFormat \in RawFormats
  /\ pfType \in FormatTypes
  /\ pfResult = NotCalled
  /\ IdIdle
  /\ ResponseIdle
  /\ ExtractorIdle
  /\ PageIdle

CallParseFormat ==
  /\ pfResult = NotCalled
  /\ pfResult' = [called |-> TRUE, value |-> parseFormat(pfFormat, pfType)]
  /\ UNCHANGED <<pfFormat, pfType, idVars, prVars, topVars, innerVars, embedVars, uiVars>>

ParseNext == CallParseFormat

ParseSpec == ParseInit /\ [][ParseNext]_vars

(***************************************************************************)
(* Specification of extractVideoId as a function.                          *)
(***************************************************************************)
IdInit ==
  /\ idUrl \in Urls
  /\ idResult = NotCalled
  /\ ParseIdle
  /\ ResponseIdle
  /\ ExtractorIdle
  /\ PageIdle

CallExtractVideoId ==
  /\ idResult = NotCalled
  /\ idResult' = [called |-> TRUE, value |-> extractVideoId(idUrl)]
  /\ UNCHANGED <<idUrl, parseVars, prVars, topVars, innerVars, embedVars, uiVars>>

IdNext == CallExtractVideoId

IdSpec == IdInit /\ [][IdNext]_vars

(***************************************************************************)
(* Specification of parsePlayerResponse as a function.                     *)
(***************************************************************************)
ResponseInit ==
  /\ prInput \in ResponseInputs
  /\ prResult = NotCalled
  /\ ParseIdle
  /\ IdIdle
  /\ ExtractorIdle
  /\ PageIdle

CallParsePlayerResponse ==
  /\ prResult = NotCalled
  /\ prResult' = [called |-> TRUE, outcome |-> parsePlayerResponse(prInput)]
  /\ UNCHANGED <<prInput, parseVars, idVars, topVars, innerVars, embedVars, uiVars>>

ResponseNext == CallParsePlayerResponse

ResponseSpec == ResponseInit /\ [][ResponseNext]_vars

(***************************************************************************)
(* Specification of extractVideoInfo: the call, the ways the InnerTube     *)
(* fetch settles, and the timer and iframe events of the embed strategy.   *)
(***************************************************************************)
Init ==
  /\ ParseIdle
  /\ IdIdle
  /\ ResponseIdle
  /\ ExtractorIdle
  /\ PageIdle

\* extractVideoInfo(id) up to the fetch of line 147
Call(id) ==
  /\ pc = "idle"
  /\ pc' = "innertube"
  /\ videoId' = id
  /\ pcInner' = "fetch"
  /\ fetchCount' = fetchCount + 1
  /\ UNCHANGED <<result, error, httpStatus, innerTube, responseData, embedVars,
                 parseVars, idVars, prVars, uiVars>>

\* AfterEmbed without the throw of line 69: the null of the embed strategy
\* is handed to the caller
AfterEmbed_ReturnsNull(embedInfo) ==
  [pc |-> "resolved", result |-> embedInfo, error |-> NoError]

\* lines 64-69 of extractVideoInfo: how its promise settles once
\* extractFromEmbed has produced embedInfo
AfterEmbed(embedInfo) ==
  IF embedInfo # Null
  THEN [pc |-> "resolved", result |-> embedInfo, error |-> NoError]
  ELSE [pc |-> "rejected", result |-> Null, error |-> "All extraction methods failed"]

\* InnerTubeReturns without the return of line 58: the embed strategy is
\* started although InnerTube produced a VideoInfo
InnerTubeReturns_AlwaysEmbed(out, domOk) ==
  /\ pcInner' = "returned"
  /\ innerTube' = out
  /\ embed' = EmbedStart(domOk)
  /\ iframeCount' = IF domOk THEN iframeCount + 1 ELSE iframeCount
  /\ UNCHANGED lateEvents
  /\ IF domOk
     THEN pc' = "embed" /\ UNCHANGED <<result, error>>
     ELSE /\ pc' = AfterEmbed(out.info).pc
          /\ result' = AfterEmbed(out.info).result
          /\ error' = AfterEmbed(out.info).error

\* extractVideoInfo resumes at line 56 with what extractFromInnerTube
\* returned (or threw), and runs up to its next await or its end
InnerTubeReturns(out, domOk) ==
  /\ pcInner' = "returned"
  /\ innerTube' = out
  /\ IF out.thrown # NoError
     THEN /\ pc' = "rejected"
          /\ error' = out.thrown
          /\ UNCHANGED <<result, embedVars>>
     ELSE IF out.info # Null
     THEN /\ pc' = "resolved"
          /\ result' = out.info
          /\ UNCHANGED <<error, embedVars>>
     ELSE /\ embed' = EmbedStart(domOk)
          /\ iframeCount' = IF domOk THEN iframeCount + 1 ELSE iframeCount
          /\ UNCHANGED lateEvents
          /\ IF domOk
             THEN pc' = "embed" /\ UNCHANGED <<result, error>>
             ELSE /\ pc' = AfterEmbed(Null).pc
                  /\ result' = AfterEmbed(Null).result
                  /\ error' = AfterEmbed(Null).error

\* the fetch of line 147 rejects
FetchRejects ==
  /\ pcInner = "fetch"
  /\ \E domOk \in BOOLEAN : InnerTubeReturns(InnerTubeFetchFailed, domOk)
  /\ UNCHANGED <<videoId, httpStatus, responseData, fetchCount, parseVars, idVars, prVars, uiVars>>

\* the fetch of line 147 resolves with a response of the given status
FetchResponds(status) ==
  /\ pcInner = "fetch"
  /\ httpStatus' = status
  /\ pcInner' = IF status >= 200 /\ status <= 299 THEN "json" ELSE "text"
  /\ UNCHANGED <<topVars, innerTube, responseData, fetchCount, embedVars,
                 parseVars, idVars, prVars, uiVars>>

\* response.text() of line 169 settles
TextSettles(bodyRead) ==
  /\ pcInner = "text"
  /\ \E domOk \in BOOLEAN : InnerTubeReturns(InnerTubeNotOk(httpStatus, bodyRead), domOk)
  /\ UNCHANGED <<videoId, httpStatus, responseData, fetchCount, parseVars, idVars, prVars, uiVars>>

\* response.json() of line 174 rejects
JsonRejects ==
  /\ pcInner = "json"
  /\ \E domOk \in BOOLEAN : InnerTubeReturns(InnerTubeBadJson, domOk)
  /\ UNCHANGED <<videoId, httpStatus, responseData, fetchCount, parseVars, idVars, prVars, uiVars>>

\* response.json() of line 174 resolves with data
JsonResolves(data) ==
  /\ pcInner = "json"
  /\ responseData' = data
  /\ \E domOk \in BOOLEAN : InnerTubeReturns(InnerTubeData(data), domOk)
  /\ UNCHANGED <<videoId, httpStatus, fetchCount, parseVars, idVars, prVars, uiVars>>

\* extractVideoInfo resumes at line 64 when the promise of extractFromEmbed
\* has been resolved by the callback that took the state from embed to e
EmbedCallback(e) ==
  /\ embed' = e
  /\ IF embed.promise = "pending" /\ e.promise = "resolved"
     THEN /\ pc' = AfterEmbed(e.value).pc
          /\ result' = AfterEmbed(e.value).result
          /\ error' = AfterEmbed(e.value).error
     ELSE UNCHANGED <<pc, result, error>>
  /\ UNCHANGED <<videoId, innerVars, iframeCount, parseVars, idVars, prVars, uiVars>>

\* an event is late when the iframe has been detached before it is delivered
Late == embed.iframe = "detached"

CountLate ==
  /\ Late => lateEvents < MaxLateEvents
  /\ lateEvents' = IF Late THEN lateEvents + 1 ELSE lateEvents

\* the 10 second timer of line 85 fires
TimeoutFires ==
  /\ embed.timer = "pending"
  /\ EmbedCallback(TimeoutCallback(embed))
  /\ UNCHANGED lateEvents

\* the load event of the iframe is delivered; a detached iframe has no
\* document
IframeLoad(doc) ==
  /\ embed.iframe # "none"
  /\ Late => doc = NoDocument
  /\ CountLate
  /\ EmbedCallback(OnLoad(embed, doc))

\* the error event of the iframe is delivered
IframeError ==
  /\ embed.iframe # "none"
  /\ CountLate
  /\ EmbedCallback(OnError(embed))

Next ==
  \/ \E id \in VideoIds : Call(id)
  \/ FetchRejects
  \/ \E status \in HttpStatuses : FetchResponds(status)
  \/ \E bodyRead \in BOOLEAN : TextSettles(bodyRead)
  \/ JsonRejects
  \/ \E data \in PlayerResponses : JsonResolves(data)
  \/ TimeoutFires
  \/ \E doc \in IframeDocuments : IframeLoad(doc)
  \/ IframeError

Spec == Init /\ [][Next]_vars

\* the timer fires unless it is cleared; the scheduling of the event loop
FairSpec == Spec /\ WF_vars(TimeoutFires)

(***************************************************************************)
(* The page (src/src/app/page.tsx).  A call of a handler that sets loading *)
(* is a record o of ops:                                                   *)
(*   id        its number in the order of the calls                        *)
(*   name      the handler                                                 *)
(*   pc        the request it awaits                                       *)
(*   videoInfo the videoInfo of the render the handler was created in      *)
(*   reqs      the endpoints it has requested so far                       *)
(* and leaves ops when the handler ends.                                   *)
(* A request settles in one step: fetch and res.json() are taken together. *)
(* State no handler or control of these reads (downloads, musicAnalysis,   *)
(* trimStart, trimEnd, playlistTitle, m3u8Progress, queueStatus) is left   *)
(* out.                                                                    *)
(***************************************************************************)
Modes == {"video", "audio", "playlist", "live", "m3u8"}

PageUrls == {"", "https://youtu.be/abc", "https://example.com/stream.m3u8"}

\* a request ends with fetch rejecting, a response that is not OK, an OK
\* response whose res.json() rejects, or an OK response with its JSON
FetchOutcomes == {"rejected", "notOk", "badJson", "ok"}

\* e.message in the catch blocks: what was thrown for the outcome
ErrorMessage(outcome, notOkMessage) ==
  LET FailedToFetch == "Failed to fetch"
      BadJsonMessage == "Unexpected end of JSON input"
  IN  CASE outcome = "rejected" -> FailedToFetch
        [] outcome = "notOk" -> notOkMessage
        [] outcome = "badJson" -> BadJsonMessage

\* formats of the browser extraction
Video137 == [format_id |-> "137", has_video |-> TRUE, has_audio |-> FALSE,
             resolution |-> "1920x1080"]
Audio140 == [format_id |-> "140", has_video |-> FALSE, has_audio |-> TRUE,
             resolution |-> "audio only"]
Combined18 == [format_id |-> "18", has_video |-> TRUE, has_audio |-> TRUE,
               resolution |-> "640x360"]

\* what /browser/extract answers; the last one has no formats
BrowserInfos ==
  {[id |-> "abc", formats |-> fs] :
     fs \in {<<Video137, Audio140>>, <<Combined18, Video137, Audio140>>, <<Audio140>>}}
  \cup {[id |-> "abc"]}

\* what /video/info answers
YtdlpInfo == [id |-> "abc", formats |-> <<Combined18>>, frames |-> <<"18">>]

RECURSIVE FrameIds(_)
\* browserInfo.formats.filter(f => f.has_video).map(...): the format ids
FrameIds(formats) ==
  IF formats = <<>> THEN <<>>
  ELSE IF Head(formats).has_video
  THEN <<Head(formats).format_id>> \o FrameIds(Tail(formats))
  ELSE FrameIds(Tail(formats))

\* convertedInfo of lines 151-184
ConvertedInfo(browserInfo) ==
  [id |-> browserInfo.id, formats |-> browserInfo.formats,
   frames |-> FrameIds(browserInfo.formats)] @@ ("_browserInfo" :> browserInfo)

\* Array.prototype.find: the first format among those at the indexes hits,
\* the ones that satisfy the test, or undefined
Find(formats, hits) ==
  IF hits = {} THEN UndefinedObject
  ELSE formats[CHOOSE i \in hits : \A j \in hits : i <= j]

\* selectedFormat of lines 245-247
SelectedFormat(browserInfo) ==
  LET formats == browserInfo.formats
      combined720 == {i \in 1..Len(formats) :
                        /\ formats[i].has_video
                        /\ formats[i].has_audio
                        /\ Includes(formats[i].resolution, "720")}
      combined == {i \in 1..Len(formats) : formats[i].has_video /\ formats[i].has_audio}
  IN  IF Find(formats, combined720) # UndefinedObject
      THEN Find(formats, combined720)
      ELSE Find(formats, combined)

\* lines 240-254: downloadVideo reaches the fetch of /browser/download;
\* audioFormat of line 252 is part of the request only
RequestsBrowserDownload(info) ==
  /\ info # Null
  /\ Has(info, "_browserInfo")
  /\ SelectedFormat(info["_browserInfo"]) = UndefinedObject
  /\ LET formats == info["_browserInfo"].formats
         videoFormat == Find(formats, {i \in 1..Len(formats) :
                                        formats[i].has_video /\ ~formats[i].has_audio})
     IN  videoFormat # UndefinedObject

\* data.download_id of the download the call o started
DownloadId(o) == "d" \o NumToString(o.id)

\* a handler is called: it is one more call, up to its first request
Starts(name, at, endpoint) ==
  /\ opCount < MaxOps
  /\ opCount' = opCount + 1
  /\ ops' = ops \cup {[id |-> opCount + 1, name |-> name, pc |-> at,
                        videoInfo |-> videoInfo, reqs |-> <<endpoint>>]}

\* the call o goes on to its next request
Put(o, next) == ops' = (ops \ {o}) \cup {next} /\ UNCHANGED opCount

\* the call o ends
Ends(o) == ops' = ops \ {o} /\ UNCHANGED opCount

Requests(o, at, endpoint) == [o EXCEPT !.pc = at, !.reqs = Append(@, endpoint)]

\* pollBrowserDownloadProgress / pollM3U8Progress is called: poll() issues
\* its first fetch at once
StartPoller(kind, id) ==
  /\ pollers' = pollers \cup {[kind |-> kind, id |-> id, pc |-> "fetch", last |-> "none"]}
  /\ backend' = [k \in DOMAIN backend \cup {id} |->
                   IF k = id THEN "starting" ELSE backend[k]]

(***************************************************************************)
(* The controls that do not start a request.                               *)
(***************************************************************************)
\* one of the mode buttons (lines 760-809)
SetMode(m) ==
  /\ m # mode
  /\ mode' = m
  /\ UNCHANGED <<url, loading, uiError, uiStatus, videoInfo, selectedFrame,
                 playlistVideos, liveInfo, ops, opCount, pollers, backend>>
  /\ UNCHANGED <<parseVars, idVars, prVars, topVars, innerVars, embedVars>>

\* a radio button of the frames table (line 926)
SelectFrame(f) ==
  /\ mode = "video"
  /\ videoInfo # Null
  /\ \E i \in 1..Len(videoInfo.frames) : videoInfo.frames[i] = f
  /\ f # selectedFrame
  /\ selectedFrame' = f
  /\ UNCHANGED <<mode, url, loading, uiError, uiStatus, videoInfo,
                 playlistVideos, liveInfo, ops, opCount, pollers, backend>>
  /\ UNCHANGED <<parseVars, idVars, prVars, topVars, innerVars, embedVars>>

(***************************************************************************)
(* fetchVideoInfo (lines 113-214).                                         *)
(***************************************************************************)
\* ClickAnalyze whose fetchVideoInfo asks yt-dlp without trying the browser
\* extraction
ClickAnalyze_YtdlpFirst ==
  /\ ~(loading \/ url = "")
  /\ loading' = TRUE
  /\ uiError' = ""
  /\ videoInfo' = Null
  /\ IF mode = "live"
     THEN /\ Starts("fetchVideoInfo", "live", "/live/info")
          /\ UNCHANGED uiStatus
     ELSE /\ Starts("fetchVideoInfo", "ytdlp", "/video/info")
          /\ uiStatus' = "Browser extraction failed, trying yt-dlp..."
  /\ UNCHANGED <<mode, url, selectedFrame, playlistVideos, liveInfo, pollers, backend>>
  /\ UNCHANGED <<parseVars, idVars, prVars, topVars, innerVars, embedVars>>

\* the Analyze button (lines 834-840) and fetchVideoInfo up to its first
\* fetch: /live/info, /browser/extract when the url holds a video id, else
\* /video/info after the throw of line 192
ClickAnalyze ==
  /\ ~(loading \/ url = "")
  /\ loading' = TRUE
  /\ uiError' = ""
  /\ videoInfo' = Null
  /\ IF mode = "live"
     THEN /\ Starts("fetchVideoInfo", "live", "/live/info")
          /\ UNCHANGED uiStatus
     ELSE IF PatternGroup(url, WatchPattern) # NoMatch
     THEN /\ Starts("fetchVideoInfo", "browser", "/browser/extract")
          /\ uiStatus' = "Extracting video info via browser method..."
     ELSE /\ Starts("fetchVideoInfo", "ytdlp", "/video/info")
          /\ uiStatus' = "Browser extraction failed, trying yt-dlp..."
  /\ UNCHANGED <<mode, url, selectedFrame, playlistVideos, liveInfo, pollers, backend>>
  /\ UNCHANGED <<parseVars, idVars, prVars, topVars, innerVars, embedVars>>

\* the request of line 123 settles (lines 129-131, 209-213)
LiveInfoResponds(o, outcome) ==
  /\ o.name = "fetchVideoInfo" /\ o.pc = "live"
  /\ IF outcome = "ok"
     THEN liveInfo' = [title |-> "live"] /\ UNCHANGED uiError
     ELSE /\ uiError' = ErrorMessage(outcome, "Failed to fetch live stream info")
          /\ UNCHANGED liveInfo
  /\ loading' = FALSE
  /\ Ends(o)
  /\ UNCHANGED <<mode, url, uiStatus, videoInfo, selectedFrame, playlistVideos,
                 pollers, backend>>
  /\ UNCHANGED <<parseVars, idVars, prVars, topVars, innerVars, embedVars>>

\* BrowserExtractResponds whose return of line 188 leaves without the
\* finally block
BrowserExtractResponds_ReturnSkipsFinally(o, outcome, browserInfo) ==
  /\ o.name = "fetchVideoInfo" /\ o.pc = "browser"
  /\ outcome # "ok" => browserInfo = [id |-> "abc"]
  /\ IF outcome = "ok" /\ Has(browserInfo, "formats")
     THEN /\ videoInfo' = ConvertedInfo(browserInfo)
          /\ uiStatus' = "Video info extracted successfully via browser method!"
          /\ UNCHANGED loading
          /\ Ends(o)
     ELSE /\ uiStatus' = "Browser extraction failed, trying yt-dlp..."
          /\ Put(o, Requests(o, "ytdlp", "/video/info"))
          /\ UNCHANGED <<videoInfo, loading>>
  /\ UNCHANGED <<mode, url, uiError, selectedFrame, playlistVideos, liveInfo,
                 pollers, backend>>
  /\ UNCHANGED <<parseVars, idVars, prVars, topVars, innerVars, embedVars>>

\* the request of line 142 settles: lines 147-188 when it is OK and the
\* JSON has formats, else the catch of line 193 up to the fetch of line 198
BrowserExtractResponds(o, outcome, browserInfo) ==
  /\ o.name = "fetchVideoInfo" /\ o.pc = "browser"
  /\ outcome # "ok" => browserInfo = [id |-> "abc"]
  /\ IF outcome = "ok" /\ Has(browserInfo, "formats")
     THEN /\ videoInfo' = ConvertedInfo(browserInfo)
          /\ uiStatus' = "Video info extracted successfully via browser method!"
          /\ loading' = FALSE
          /\ Ends(o)
     ELSE /\ uiStatus' = "Browser extraction failed, trying yt-dlp..."
          /\ Put(o, Requests(o, "ytdlp", "/video/info"))
          /\ UNCHANGED <<videoInfo, loading>>
  /\ UNCHANGED <<mode, url, uiError, selectedFrame, playlistVideos, liveInfo,
                 pollers, backend>>
  /\ UNCHANGED <<parseVars, idVars, prVars, topVars, innerVars, embedVars>>

\* the request of line 198 settles (lines 204-206, 209-213)
YtdlpInfoResponds(o, outcome) ==
  /\ o.name = "fetchVideoInfo" /\ o.pc = "ytdlp"
  /\ IF outcome = "ok"
     THEN /\ videoInfo' = YtdlpInfo
          /\ Ends(o)
          /\ UNCHANGED uiError
     ELSE /\ uiError' = ErrorMessage(outcome, "Failed to fetch video info")
          /\ Ends(o)
          /\ UNCHANGED videoInfo
  /\ loading' = FALSE
  /\ UNCHANGED <<mode, url, uiStatus, selectedFrame, playlistVideos, liveInfo,
                 pollers, backend>>
  /\ UNCHANGED <<parseVars, idVars, prVars, topVars, innerVars, embedVars>>

(***************************************************************************)
(* downloadVideo (lines 217-294).  No control of the page calls it; it is  *)
(* called here where a control with the guard of the other download        *)
(* buttons would call it.                                                  *)
(***************************************************************************)
CallDownloadVideo ==
  /\ ~loading
  /\ url # ""
  /\ loading' = TRUE
  /\ uiError' = ""
  /\ uiStatus' = ""
  /\ Starts("downloadVideo", "ytdlp", "/video/download")
  /\ UNCHANGED <<mode, url, videoInfo, selectedFrame, playlistVideos, liveInfo,
                 pollers, backend>>
  /\ UNCHANGED <<parseVars, idVars, prVars, topVars, innerVars, embedVars>>

\* the request of line 226 settles: lines 236-277 when it is not OK, lines
\* 279-287 when it is
VideoDownloadResponds(o, outcome) ==
  /\ o.name = "downloadVideo" /\ o.pc = "ytdlp"
  /\ IF outcome = "ok"
     THEN /\ uiStatus' = "Download started: " \o DownloadId(o)
          /\ loading' = FALSE
          /\ Ends(o)
          /\ UNCHANGED uiError
     ELSE IF outcome = "notOk"
     THEN /\ uiStatus' = "yt-dlp failed, trying browser-assisted download..."
          /\ IF RequestsBrowserDownload(o.videoInfo)
             THEN /\ Put(o, Requests(o, "browser", "/browser/download"))
                  /\ UNCHANGED <<uiError, loading>>
             ELSE /\ uiError' = "Both yt-dlp and browser download failed"
                  /\ loading' = FALSE
                  /\ Ends(o)
     ELSE /\ uiError' = ErrorMessage(outcome, "")
          /\ loading' = FALSE
          /\ Ends(o)
          /\ UNCHANGED uiStatus
  /\ UNCHANGED <<mode, url, videoInfo, selectedFrame, playlistVideos, liveInfo,
                 pollers, backend>>
  /\ UNCHANGED <<parseVars, idVars, prVars, topVars, innerVars, embedVars>>

\* the request of line 255 settles (lines 266-276)
VideoBrowserResponds(o, outcome) ==
  /\ o.name = "downloadVideo" /\ o.pc = "browser"
  /\ IF outcome = "ok"
     THEN /\ uiStatus' = "Browser download started: " \o DownloadId(o)
          /\ StartPoller("browser", DownloadId(o))
          /\ UNCHANGED uiError
     ELSE /\ uiError' = ErrorMessage(outcome, "Both yt-dlp and browser download failed")
          /\ UNCHANGED <<uiStatus, pollers, backend>>
  /\ loading' = FALSE
  /\ Ends(o)
  /\ UNCHANGED <<mode, url, videoInfo, selectedFrame, playlistVideos, liveInfo>>
  /\ UNCHANGED <<parseVars, idVars, prVars, topVars, innerVars, embedVars>>

(***************************************************************************)
(* downloadFrame (lines 331-399).                                          *)
(***************************************************************************)
\* the Download Selected Frame button (lines 968-974), rendered in video
\* mode when videoInfo is set, and downloadFrame up to its fetch
ClickDownloadFrame ==
  /\ mode = "video" /\ videoInfo # Null
  /\ ~(loading \/ selectedFrame = NullString)
  /\ url # ""
  /\ loading' = TRUE
  /\ uiError' = ""
  /\ IF Has(videoInfo, "_browserInfo")
     THEN /\ uiStatus' = "Using browser-assisted download..."
          /\ Starts("downloadFrame", "browser", "/browser/download")
     ELSE /\ uiStatus' = ""
          /\ Starts("downloadFrame", "frame", "/video/download/frame")
  /\ UNCHANGED <<mode, url, videoInfo, selectedFrame, playlistVideos, liveInfo,
                 pollers, backend>>
  /\ UNCHANGED <<parseVars, idVars, prVars, topVars, innerVars, embedVars>>

\* the request of line 360 settles (lines 371-376, 394-398)
FrameBrowserResponds(o, outcome) ==
  /\ o.name = "downloadFrame" /\ o.pc = "browser"
  /\ IF outcome = "ok"
     THEN /\ uiStatus' = "Browser download started: " \o DownloadId(o)
          /\ StartPoller("browser", DownloadId(o))
          /\ UNCHANGED uiError
     ELSE /\ uiError' = ErrorMessage(outcome, "Browser-assisted download failed")
          /\ UNCHANGED <<uiStatus, pollers, backend>>
  /\ loading' = FALSE
  /\ Ends(o)
  /\ UNCHANGED <<mode, url, videoInfo, selectedFrame, playlistVideos, liveInfo>>
  /\ UNCHANGED <<parseVars, idVars, prVars, topVars, innerVars, embedVars>>

\* the request of line 379 settles (lines 389-391, 394-398)
FrameResponds(o, outcome) ==
  /\ o.name = "downloadFrame" /\ o.pc = "frame"
  /\ IF outcome = "ok"
     THEN uiStatus' = "Frame downloaded successfully: video.mp4" /\ UNCHANGED uiError
     ELSE /\ uiError' = ErrorMessage(outcome, "Frame download failed")
          /\ UNCHANGED uiStatus
  /\ loading' = FALSE
  /\ Ends(o)
  /\ UNCHANGED <<mode, url, videoInfo, selectedFrame, playlistVideos, liveInfo,
                 pollers, backend>>
  /\ UNCHANGED <<parseVars, idVars, prVars, topVars, innerVars, embedVars>>

(***************************************************************************)
(* The handlers with one request and no poller: downloadAudio (296-329),   *)
(* downloadMusic (432-462), downloadSponsorBlockMusic (464-503),           *)
(* analyzeMusicContent (517-545), downloadPlaylist (574-603) and           *)
(* downloadLiveStream (606-634).                                           *)
(***************************************************************************)
SimpleHandlers == {"downloadAudio", "downloadMusic", "downloadSponsorBlockMusic",
                   "analyzeMusicContent", "downloadPlaylist", "downloadLiveStream"}

Endpoint(name) ==
  CASE name = "downloadAudio" -> "/audio/download"
    [] name = "downloadMusic" -> "/audio/download/music"
    [] name = "downloadSponsorBlockMusic" -> "/audio/download/music/sponsorblock"
    [] name = "analyzeMusicContent" -> "/audio/analyze/music"
    [] name = "downloadPlaylist" -> "/playlist/download"
    [] name = "downloadLiveStream" -> "/live/download"

\* the message of the Error thrown when the response is not OK
NotOkMessage(name) ==
  CASE name = "downloadAudio" -> "Download failed"
    [] name = "downloadMusic" -> "Music download failed"
    [] name = "downloadSponsorBlockMusic" -> "SponsorBlock music download failed"
    [] name = "analyzeMusicContent" -> "Analysis failed"
    [] name = "downloadPlaylist" -> "Download failed"
    [] name = "downloadLiveStream" -> "Download failed"

\* the status set after an OK response; analyzeMusicContent sets none
OkStatus(o) ==
  CASE o.name = "downloadAudio" -> "Audio download started: " \o DownloadId(o)
    [] o.name = "downloadMusic" -> "Music downloaded successfully: music.mp3"
    [] o.name = "downloadSponsorBlockMusic" -> "Clean music downloaded successfully: music.mp3"
    [] o.name = "analyzeMusicContent" -> uiStatus
    [] o.name = "downloadPlaylist" -> "Playlist download started: " \o DownloadId(o)
    [] o.name = "downloadLiveStream" -> "Live stream download started: " \o DownloadId(o)

\* the handler up to its fetch: setLoading(true), setError(""), and
\* setStatus("") in all of them but analyzeMusicContent
StartSimple(name) ==
  /\ url # ""
  /\ loading' = TRUE
  /\ uiError' = ""
  /\ uiStatus' = IF name = "analyzeMusicContent" THEN uiStatus ELSE ""
  /\ Starts(name, "fetch", Endpoint(name))
  /\ UNCHANGED <<mode, url, videoInfo, selectedFrame, playlistVideos, liveInfo,
                 pollers, backend>>
  /\ UNCHANGED <<parseVars, idVars, prVars, topVars, innerVars, embedVars>>

\* the audio download button (lines 1164-1171), rendered in audio mode when
\* videoInfo is set; downloadType selects the handler
ClickDownloadAudio(downloadType) ==
  /\ mode = "audio" /\ videoInfo # Null
  /\ ~loading
  /\ StartSimple(CASE downloadType = "sponsorblock" -> "downloadSponsorBlockMusic"
                   [] downloadType = "music" -> "downloadMusic"
                   [] downloadType = "audio" -> "downloadAudio")

\* the playlist download button (lines 1323-1326), rendered when the
\* playlist has videos
ClickDownloadPlaylist ==
  /\ mode = "playlist" /\ Len(playlistVideos) > 0
  /\ ~(loading \/ Len(playlistVideos) = 0)
  /\ StartSimple("downloadPlaylist")

\* the Record Live Stream button (lines 1400-1403), rendered in live mode
\* when liveInfo is set
ClickRecordLive ==
  /\ mode = "live" /\ liveInfo # Null
  /\ ~loading
  /\ StartSimple("downloadLiveStream")

\* analyzeMusicContent has no control either; see downloadVideo
CallAnalyzeMusicContent ==
  /\ ~loading
  /\ StartSimple("analyzeMusicContent")

\* the request of the handler settles: the lines after the fetch, the catch
\* and the finally block
SimpleResponds(o, outcome) ==
  /\ o.name \in SimpleHandlers /\ o.pc = "fetch"
  /\ IF outcome = "ok"
     THEN uiStatus' = OkStatus(o) /\ UNCHANGED uiError
     ELSE uiError' = ErrorMessage(outcome, NotOkMessage(o.name)) /\ UNCHANGED uiStatus
  /\ loading' = FALSE
  /\ Ends(o)
  /\ UNCHANGED <<mode, url, videoInfo, selectedFrame, playlistVideos, liveInfo,
                 pollers, backend>>
  /\ UNCHANGED <<parseVars, idVars, prVars, topVars, innerVars, embedVars>>

(***************************************************************************)
(* fetchPlaylistInfo (lines 548-572).                                      *)
(***************************************************************************)
\* the Fetch Playlist button (lines 1220-1223) and the handler up to its
\* fetch
ClickFetchPlaylist ==
  /\ mode = "playlist"
  /\ ~(loading \/ url = "")
  /\ loading' = TRUE
  /\ uiError' = ""
  /\ playlistVideos' = <<>>
  /\ Starts("fetchPlaylistInfo", "fetch", "/playlist/info")
  /\ UNCHANGED <<mode, url, uiStatus, videoInfo, selectedFrame, liveInfo,
                 pollers, backend>>
  /\ UNCHANGED <<parseVars, idVars, prVars, topVars, innerVars, embedVars>>

\* the request of line 556 settles (lines 562-571)
PlaylistInfoResponds(o, outcome) ==
  /\ o.name = "fetchPlaylistInfo" /\ o.pc = "fetch"
  /\ IF outcome = "ok"
     THEN playlistVideos' = <<"p1", "p2">> /\ UNCHANGED uiError
     ELSE /\ uiError' = ErrorMessage(outcome, "Failed to fetch playlist")
          /\ UNCHANGED playlistVideos
  /\ loading' = FALSE
  /\ Ends(o)
  /\ UNCHANGED <<mode, url, uiStatus, videoInfo, selectedFrame, liveInfo,
                 pollers, backend>>
  /\ UNCHANGED <<parseVars, idVars, prVars, topVars, innerVars, embedVars>>

(***************************************************************************)
(* downloadM3U8 (lines 637-667).                                           *)
(***************************************************************************)
\* the Download M3U8 Stream button (lines 1434-1437) and the handler up to
\* its fetch
ClickDownloadM3U8 ==
  /\ mode = "m3u8"
  /\ ~(loading \/ url = "")
  /\ loading' = TRUE
  /\ uiError' = ""
  /\ uiStatus' = ""
  /\ Starts("downloadM3U8", "fetch", "/m3u8/download")
  /\ UNCHANGED <<mode, url, videoInfo, selectedFrame, playlistVideos, liveInfo,
                 pollers, backend>>
  /\ UNCHANGED <<parseVars, idVars, prVars, topVars, innerVars, embedVars>>

\* the request of line 646 settles (lines 655-666)
M3U8Responds(o, outcome) ==
  /\ o.name = "downloadM3U8" /\ o.pc = "fetch"
  /\ IF outcome = "ok"
     THEN /\ uiStatus' = "M3U8 download started: " \o DownloadId(o)
          /\ StartPoller("m3u8", DownloadId(o))
          /\ UNCHANGED uiError
     ELSE /\ uiError' = ErrorMessage(outcome, "M3U8 download failed")
          /\ UNCHANGED <<uiStatus, pollers, backend>>
  /\ loading' = FALSE
  /\ Ends(o)
  /\ UNCHANGED <<mode, url, videoInfo, selectedFrame, playlistVideos, liveInfo>>
  /\ UNCHANGED <<parseVars, idVars, prVars, topVars, innerVars, embedVars>>

(***************************************************************************)
(* pollBrowserDownloadProgress (lines 401-429) and pollM3U8Progress (lines *)
(* 669-696).  A poller is a record p of pollers:                           *)
(*   kind "browser" | "m3u8"                                               *)
(*   id   the download it asks about                                       *)
(*   pc   "fetch" (a status request is in flight), "timer" (the next poll  *)
(*        is scheduled), "stopped"                                         *)
(*   last how its last request ended: an outcome that is not "ok", or the  *)
(*        status of an OK response; "none" before the first response       *)
(***************************************************************************)
\* the statuses a download of the backend goes through
Progressing == {"starting", "downloading", "merging"}
Final == {"completed", "failed"}

\* data.message || `Status: ${data.status} (${data.progress}%)` (line 416)
ProgressText(status, message) ==
  LET \* data.progress for the status
      progress == CASE status = "starting" -> 0
                    [] status = "downloading" -> 50
                    [] status = "merging" -> 90
                    [] OTHER -> 100
  IN  IF message # "" THEN message
      ELSE "Status: " \o status \o " (" \o NumToString(progress) \o "%)"

CompletedText(kind) ==
  IF kind = "browser" THEN "Download completed: out.mp4"
  ELSE "M3U8 download completed: out.mp4"

FailedText(kind) ==
  IF kind = "browser" THEN "Download failed: network error"
  ELSE "M3U8 download failed: network error"

\* AfterPoll that schedules the next poll after every OK response that is
\* not final
AfterPoll_KeepsPolling(p, outcome, status) ==
  IF outcome # "ok" THEN [p EXCEPT !.pc = "stopped", !.last = outcome]
  ELSE IF status \notin {"completed", "failed"}
  THEN [p EXCEPT !.pc = "timer", !.last = status]
  ELSE [p EXCEPT !.pc = "stopped", !.last = status]

\* the next state of the poller: setTimeout(poll, 2000) for the statuses of
\* lines 419 and 686
AfterPoll(p, outcome, status) ==
  IF outcome # "ok" THEN [p EXCEPT !.pc = "stopped", !.last = outcome]
  ELSE IF status \in {"downloading", "starting"}
  THEN [p EXCEPT !.pc = "timer", !.last = status]
  ELSE [p EXCEPT !.pc = "stopped", !.last = status]

\* the download may have moved on from status s to status t: starting,
\* downloading, merging, then completed or failed; it may fail or complete
\* earlier
MovesOn(s, t) ==
  \/ s = "starting" /\ t \in {"downloading", "merging", "completed", "failed"}
  \/ s = "downloading" /\ t \in {"merging", "completed", "failed"}
  \/ s = "merging" /\ t \in {"completed", "failed"}

\* the status request of poller p settles; status is data.status, the
\* status the download has reached when the backend answers
PollResponds(p, outcome, status, message) ==
  /\ p.pc = "fetch"
  /\ status = backend[p.id] \/ (outcome = "ok" /\ MovesOn(backend[p.id], status))
  /\ (outcome # "ok" \/ p.kind = "m3u8" \/ status \in Final) => message = ""
  /\ backend' = [backend EXCEPT ![p.id] = status]
  /\ pollers' = (pollers \ {p}) \cup {AfterPoll(p, outcome, status)}
  /\ IF outcome # "ok" THEN UNCHANGED <<uiStatus, uiError>>
     ELSE IF status = "completed"
     THEN uiStatus' = CompletedText(p.kind) /\ UNCHANGED uiError
     ELSE IF status = "failed"
     THEN uiError' = FailedText(p.kind) /\ UNCHANGED uiStatus
     ELSE IF p.kind = "browser"
     THEN uiStatus' = ProgressText(status, message) /\ UNCHANGED uiError
     ELSE UNCHANGED <<uiStatus, uiError>>
  /\ UNCHANGED <<mode, url, loading, videoInfo, selectedFrame, playlistVideos,
                 liveInfo, ops, opCount>>
  /\ UNCHANGED <<parseVars, idVars, prVars, topVars, innerVars, embedVars>>

PollStep ==
  LET PollMessages == {"", "Downloading video..."}
  IN  \E p \in pollers : \E outcome \in FetchOutcomes :
        \E status \in Progressing \cup Final : \E message \in PollMessages :
          PollResponds(p, outcome, status, message)

\* the timer of line 420 or 687 fires: poll() issues the next request
TimerStep ==
  \E p \in pollers :
    /\ p.pc = "timer"
    /\ pollers' = (pollers \ {p}) \cup {[p EXCEPT !.pc = "fetch"]}
    /\ UNCHANGED <<mode, url, loading, uiError, uiStatus, videoInfo, selectedFrame,
                   playlistVideos, liveInfo, ops, opCount, backend>>
    /\ UNCHANGED <<parseVars, idVars, prVars, topVars, innerVars, embedVars>>

\* the download moves on while no status request is answered
BackendStep ==
  \E id \in DOMAIN backend : \E status \in Progressing \cup Final :
    /\ MovesOn(backend[id], status)
    /\ backend' = [backend EXCEPT ![id] = status]
    /\ UNCHANGED <<mode, url, loading, uiError, uiStatus, videoInfo, selectedFrame,
                   playlistVideos, liveInfo, ops, opCount, pollers>>
    /\ UNCHANGED <<parseVars, idVars, prVars, topVars, innerVars, embedVars>>

(***************************************************************************)
(* Specification of the page: the controls, the requests of the handlers   *)
(* and the pollers.  What a download does between two status requests is   *)
(* seen by the page in the next answer only, so it is part of PollStep.    *)
(***************************************************************************)
\* the page after construction and the text typed into the URL input
PageInit ==
  /\ mode = "video"
  /\ url \in PageUrls
  /\ loading = FALSE
  /\ uiError = ""
  /\ uiStatus = ""
  /\ videoInfo = Null
  /\ selectedFrame = NullString
  /\ playlistVideos = <<>>
  /\ liveInfo = Null
  /\ ops = {}
  /\ opCount = 0
  /\ pollers = {}
  /\ backend = EmptyObject
  /\ ParseIdle
  /\ IdIdle
  /\ ResponseIdle
  /\ ExtractorIdle

PageNext ==
  \/ \E m \in Modes : SetMode(m)
  \/ \E f \in {"18", "137"} : SelectFrame(f)
  \/ ClickAnalyze
  \/ ClickDownloadFrame
  \/ \E downloadType \in {"sponsorblock", "music", "audio"} : ClickDownloadAudio(downloadType)
  \/ ClickFetchPlaylist
  \/ ClickDownloadPlaylist
  \/ ClickRecordLive
  \/ ClickDownloadM3U8
  \/ CallDownloadVideo
  \/ CallAnalyzeMusicContent
  \/ \E o \in ops : \E outcome \in FetchOutcomes : LiveInfoResponds(o, outcome)
  \/ \E o \in ops : \E outcome \in FetchOutcomes : \E browserInfo \in BrowserInfos :
       BrowserExtractResponds(o, outcome, browserInfo)
  \/ \E o \in ops : \E outcome \in FetchOutcomes : YtdlpInfoResponds(o, outcome)
  \/ \E o \in ops : \E outcome \in FetchOutcomes : VideoDownloadResponds(o, outcome)
  \/ \E o \in ops : \E outcome \in FetchOutcomes : VideoBrowserResponds(o, outcome)
  \/ \E o \in ops : \E outcome \in FetchOutcomes : FrameBrowserResponds(o, outcome)
  \/ \E o \in ops : \E outcome \in FetchOutcomes : FrameResponds(o, outcome)
  \/ \E o \in ops : \E outcome \in FetchOutcomes : SimpleResponds(o, outcome)
  \/ \E o \in ops : \E outcome \in FetchOutcomes : PlaylistInfoResponds(o, outcome)
  \/ \E o \in ops : \E outcome \in FetchOutcomes : M3U8Responds(o, outcome)
  \/ PollStep
  \/ TimerStep

PageSpec == PageInit /\ [][PageNext]_vars

(***************************************************************************)
(* Specification of one poller: pollBrowserDownloadProgress or             *)
(* pollM3U8Progress has just been called for download d1.                  *)
(***************************************************************************)
PollInit ==
  /\ mode \in {"video", "m3u8"}
  /\ url = (IF mode = "video" THEN "https://youtu.be/abc"
            ELSE "https://example.com/stream.m3u8")
  /\ loading = FALSE
  /\ uiError = ""
  /\ uiStatus = (IF mode = "video" THEN "Browser download started: d1"
                 ELSE "M3U8 download started: d1")
  /\ videoInfo = Null
  /\ selectedFrame = NullString
  /\ playlistVideos = <<>>
  /\ liveInfo = Null
  /\ ops = {}
  /\ opCount = 1
  /\ pollers = {[kind |-> (IF mode = "video" THEN "browser" ELSE "m3u8"), id |-> "d1",
                 pc |-> "fetch", last |-> "none"]}
  /\ backend = [id \in {"d1"} |-> "starting"]
  /\ ParseIdle
  /\ IdIdle
  /\ ResponseIdle
  /\ ExtractorIdle

PollNext == PollStep \/ TimerStep \/ BackendStep

PollSpec == PollInit /\ [][PollNext]_vars

\* every status request is answered, every scheduled poll is issued and the
\* backend does not stall
PollFairSpec ==
  PollSpec /\ WF_vars(PollStep) /\ WF_vars(TimerStep) /\ WF_vars(BackendStep)

(***************************************************************************)
(* Properties of extractVideoInfo and its two strategies.                  *)
(***************************************************************************)
EmbedStarted == embed.promise # "none"

\* the VideoInfo records parsePlayerResponse builds from the responses
VideoInfos ==
  {parsePlayerResponse(d).value : d \in {r \in PlayerResponses : Has(r, "videoDetails")}}

VideoInfoFields ==
  {"id", "title", "duration", "uploader", "thumbnail", "formats", "streamingData"}

\* C1: the embed strategy is started in exactly the step in which the
\* InnerTube attempt ends without a VideoInfo, whatever made it fail; no
\* error of the first strategy reaches the caller, so a rejection is only
\* seen after the embed strategy was started.
C1_FallbackOnEveryFailure ==
  [][ /\ (~EmbedStarted /\ EmbedStarted')
         <=> (pcInner # "returned" /\ pcInner' = "returned" /\ innerTube'.info = Null)
      /\ innerTube'.thrown = NoError
      /\ pc' = "rejected" => EmbedStarted' ]_vars

C1_Witness ==
  /\ httpStatus = 403
  /\ innerTube.caught = "InnerTube API failed: 403"
  /\ pc = "embed"
  /\ embed.iframe = "attached"

\* C2: the promise of extractVideoInfo resolves only with a complete
\* VideoInfo built by parsePlayerResponse and rejects only with 'All
\* extraction methods failed'; it rejects exactly when both strategies ended
\* without a VideoInfo, and never resolves with null.
C2_VideoInfoOrAllFailed ==
  /\ pc = "resolved" => /\ result \in VideoInfos
                        /\ DOMAIN result = VideoInfoFields
                        /\ error = NoError
  /\ pc = "rejected" => /\ error = "All extraction methods failed"
                        /\ result = Null
                        /\ innerTube.info = Null
                        /\ embed.promise = "resolved" /\ embed.value = Null
  /\ (pcInner = "returned" /\ innerTube.info = Null
        /\ embed.promise = "resolved" /\ embed.value = Null) => pc = "rejected"
  /\ pc \notin {"resolved", "rejected"} => result = Null /\ error = NoError

C2_Witness ==
  /\ pc = "rejected"
  /\ error = "All extraction methods failed"
  /\ innerTube.caught = NoError
  /\ embed.timer = "fired"

\* C3: once the iframe is attached the promise of extractFromEmbed
\* eventually settles, and extractVideoInfo eventually resolves or rejects
\* once the InnerTube attempt is over.
C3_EmbedEventuallySettles ==
  /\ (embed.promise = "pending") ~> (embed.promise = "resolved")
  /\ (pc = "embed") ~> (pc \in {"resolved", "rejected"})

\* C4: no exception escapes the timeout, onload or onerror callback of
\* extractFromEmbed, and once a callback has handled its event the promise
\* is resolved (stated for the first event delivered to the iframe).
C4_EmbedNeverThrows ==
  lateEvents = 0 =>
    /\ embed.escaped = {}
    /\ embed.iframe = "detached" => embed.promise = "resolved"

\* C5: whenever extractFromEmbed has delivered its result the iframe is not
\* a child of document.body and the timer is not pending; the iframe is
\* attached exactly as long as the timer is pending, so neither outlives
\* the other.
C5_CleanupOnEveryExit ==
  /\ embed.promise = "resolved" => (embed.iframe # "attached" /\ embed.timer # "pending")
  /\ embed.iframe = "attached" <=> embed.timer = "pending"

C5_Witness ==
  /\ embed.promise = "resolved"
  /\ embed.value = Null
  /\ embed.timer = "cleared"
  /\ embed.removed = 1
  /\ lateEvents = 0

\* C6: for the InnerTube response with videoDetails {v1, T, '125', A} and
\* the single progressive entry {itag 18, 'video/mp4; codecs="avc1, mp4a"',
\* 360, 640}, extractVideoInfo yields id v1, title T, duration 125,
\* uploader A and one format 18 / mp4 / 640x360 / avc1 / mp4a with has_video
\* and has_audio true and the note 'progressive - unknown'.
C6_EndToEndExample ==
  (/\ pc = "resolved"
   /\ innerTube.info # Null
   /\ httpStatus = 200
   /\ result.id = "v1"
   /\ result.streamingData = [formats |-> <<Format18>>])
  => /\ result.title = "T"
     /\ result.duration = 125
     /\ result.uploader = "A"
     /\ Len(result.formats) = 1
     /\ result.formats[1].format_id = "18"
     /\ result.formats[1].ext = "mp4"
     /\ result.formats[1].resolution = "640x360"
     /\ result.formats[1].vcodec = "avc1"
     /\ result.formats[1].acodec = "mp4a"
     /\ result.formats[1].has_video = TRUE
     /\ result.formats[1].has_audio = TRUE
     /\ result.formats[1].format_note = "progressive - unknown"

(***************************************************************************)
(* Properties of the format parser.                                        *)
(***************************************************************************)
\* C7: in every Format, has_video is true exactly when vcodec is not
\* 'none', has_audio is true exactly when acodec is not 'none', and both
\* codecs are defined strings.
C7_FlagsMatchCodecs ==
  pfResult.called =>
    /\ pfResult.value.has_video <=> pfResult.value.vcodec # "none"
    /\ pfResult.value.has_audio <=> pfResult.value.acodec # "none"
    /\ pfResult.value.vcodec # Undefined
    /\ pfResult.value.acodec # Undefined

\* C8: when the mimeType contains both 'video' and 'audio', has_video and
\* has_audio are true, vcodec is the first token of the codecs list and
\* acodec the second token when there are two, else the first.
C8_BothCodecsFromList ==
  (/\ pfResult.called
   /\ Has(pfFormat, "mimeType")
   /\ Includes(pfFormat.mimeType, "video")
   /\ Includes(pfFormat.mimeType, "audio"))
  => /\ pfResult.value.has_video
     /\ pfResult.value.has_audio
     /\ Len(codecs(pfFormat)) >= 1
     /\ pfResult.value.vcodec = codecs(pfFormat)[1]
     /\ pfResult.value.acodec = IF Len(codecs(pfFormat)) >= 2 THEN codecs(pfFormat)[2]
                                ELSE codecs(pfFormat)[1]

\* C9: an audio-only mimeType (contains 'audio', not 'video') whose codecs
\* parameter holds exactly one token t gives acodec = t, vcodec = 'none',
\* has_audio true and has_video false.
C9_AudioOnlySingleCodec ==
  \A b \in MimeBases, t \in CodecTokens :
    (/\ pfResult.called
     /\ Includes(b, "audio") /\ ~Includes(b, "video")
     /\ Has(pfFormat, "mimeType")
     /\ pfFormat.mimeType = b \o "; codecs=\"" \o t \o "\"")
    => /\ pfResult.value.acodec = t
       /\ pfResult.value.vcodec = "none"
       /\ pfResult.value.has_audio = TRUE
       /\ pfResult.value.has_video = FALSE

C9_Witness ==
  /\ pfResult.called
  /\ Has(pfFormat, "mimeType")
  /\ pfFormat.mimeType = "audio/webm; codecs=\"opus\""
  /\ pfResult.value.acodec = "opus"

\* the decimal notation of the heights and widths that are enumerated
Decimal(n) == CASE n = 0 -> "0" [] n = 360 -> "360" [] n = 720 -> "720"
                [] n = 1080 -> "1080" [] n = 640 -> "640" [] n = 1920 -> "1920"

\* C10 as stated: resolution is 'WxH' when width and height are both
\* present, 'Hp' when height is present without width, 'audio only'
\* otherwise.
C10_ResolutionByPresence ==
  pfResult.called =>
    pfResult.value.resolution =
      IF Has(pfFormat, "height") /\ Has(pfFormat, "width")
      THEN Decimal(pfFormat.width) \o "x" \o Decimal(pfFormat.height)
      ELSE IF Has(pfFormat, "height") THEN Decimal(pfFormat.height) \o "p"
      ELSE "audio only"

NonZero(o, f) == Has(o, f) /\ o[f] # 0

\* C10 amended: resolution is never empty; it is 'WxH' when width and
\* height are both present and not 0, 'Hp' when height is present and not 0
\* and width is absent or 0, 'audio only' otherwise.
C10_ResolutionByNonZero ==
  pfResult.called =>
    /\ pfResult.value.resolution # ""
    /\ pfResult.value.resolution =
         IF NonZero(pfFormat, "height") /\ NonZero(pfFormat, "width")
         THEN Decimal(pfFormat.width) \o "x" \o Decimal(pfFormat.height)
         ELSE IF NonZero(pfFormat, "height") THEN Decimal(pfFormat.height) \o "p"
         ELSE "audio only"

C10_Witness ==
  /\ pfResult.called
  /\ Has(pfFormat, "height") /\ pfFormat.height = 1080
  /\ Has(pfFormat, "width") /\ pfFormat.width = 1920
  /\ pfResult.value.resolution = "1920x1080"

\* the substring tests in the order of the claim, each with its extension
ExtensionTests ==
  << <<"mp4", "mp4">>, <<"webm", "webm">>, <<"3gpp", "3gp">>,
     <<"audio/mp4", "m4a">>, <<"audio/webm", "webm">> >>

\* the extension of the first test that the mimeType passes
FirstMatchingExtension(mimeType) ==
  LET hits == {i \in 1..Len(ExtensionTests) : Includes(mimeType, ExtensionTests[i][1])}
  IN  IF hits = {} THEN "unknown"
      ELSE ExtensionTests[CHOOSE i \in hits : \A j \in hits : i <= j][2]

\* C11: ext is the extension of the first of the tests mp4, webm, 3gpp,
\* audio/mp4, audio/webm that the mimeType passes; a mimeType containing
\* both 'mp4' and 'webm' gives 'mp4'; an absent or empty mimeType, or one
\* passing no test, gives 'unknown'.
C11_FirstMatchWins ==
  pfResult.called =>
    /\ ~Has(pfFormat, "mimeType") => pfResult.value.ext = "unknown"
    /\ Has(pfFormat, "mimeType") =>
         /\ pfFormat.mimeType = "" => pfResult.value.ext = "unknown"
         /\ pfFormat.mimeType # "" =>
              pfResult.value.ext = FirstMatchingExtension(pfFormat.mimeType)
         /\ (Includes(pfFormat.mimeType, "mp4") /\ Includes(pfFormat.mimeType, "webm"))
              => pfResult.value.ext = "mp4"

C11_Witness ==
  /\ pfResult.called
  /\ Has(pfFormat, "mimeType")
  /\ pfFormat.mimeType = "video/webm; alt=mp4"
  /\ pfResult.value.ext = "mp4"

(***************************************************************************)
(* Properties of extractVideoId.                                           *)
(***************************************************************************)
\* what the claim gives for the url prefix \o marker \o id \o suffix: the
\* id behind a marker of the first pattern; else the id behind a later
\* marker of the first pattern; else the id behind the /v/ marker; else null
ExpectedVideoId(marker, id, suffix) ==
  IF marker \in {"youtube.com/watch?v=", "youtu.be/", "youtube.com/embed/"} /\ id # ""
  THEN id
  ELSE IF suffix = "&feature=youtu.be/zzz" THEN "zzz"
  ELSE IF marker = "youtube.com/v/" /\ id # "" THEN id
  ELSE NullString

\* C12: extractVideoId returns the group of the first of its two patterns
\* that matches, the characters after the marker up to the first '&', '?',
\* '#' or newline, and null when neither matches; the id's length and
\* characters are not checked.
C12_FirstPatternGroup ==
  /\ \A p \in UrlPrefixes, m \in UrlMarkers, i \in UrlIds, x \in UrlSuffixes :
       (idResult.called /\ idUrl = p \o m \o i \o x)
         => idResult.value = ExpectedVideoId(m, i, x)
  /\ (idResult.called /\ idUrl = "https://youtu.be/abc123") => idResult.value = "abc123"
  /\ (idResult.called /\ idUrl = "https://youtube.com/playlist?list=X")
       => idResult.value = NullString

C12_Witness ==
  /\ idResult.called
  /\ idUrl = "https://youtube.com/v/a b!&feature=youtu.be/zzz"
  /\ idResult.value = "zzz"

(***************************************************************************)
(* Further properties of extractVideoInfo and its two strategies.          *)
(***************************************************************************)
InnerTubePending == pcInner \in {"fetch", "text", "json"}

\* C13: within one call exactly one InnerTube fetch is issued and at most
\* one iframe is created; the iframe is created only after the InnerTube
\* attempt has completed and never when it returned a VideoInfo; the fetch
\* and the iframe wait are never pending together.
C13_StrictSequence ==
  /\ fetchCount = (IF pc = "idle" THEN 0 ELSE 1)
  /\ iframeCount <= 1
  /\ iframeCount = 1 <=> embed.iframe # "none"
  /\ EmbedStarted => (pcInner = "returned" /\ innerTube.info = Null)
  /\ (pcInner = "returned" /\ innerTube.info # Null) => (~EmbedStarted /\ iframeCount = 0)
  /\ ~(InnerTubePending /\ embed.promise = "pending")
  /\ ~(InnerTubePending /\ embed.timer = "pending")

C13_Witness ==
  /\ fetchCount = 1
  /\ iframeCount = 1
  /\ pcInner = "returned"
  /\ pc = "resolved"
  /\ embed.promise = "resolved"
  /\ embed.value # Null

NotOk == pcInner = "returned" /\ httpStatus # 0 /\ ~(httpStatus >= 200 /\ httpStatus <= 299)

\* the message of the Error of line 171 for the statuses that are enumerated
ApiFailedMessage(status) ==
  CASE status = 403 -> "InnerTube API failed: 403"
    [] status = 500 -> "InnerTube API failed: 500"

\* C14 as stated: for a non-OK response the outcome of extractFromInnerTube
\* is a raised error that carries the HTTP status, unlike the null returned
\* when videoDetails is missing (stated for a body that could be read).
C14_NotOkRaisesError ==
  (NotOk /\ innerTube.caught # "TypeError: Failed to read body")
    => innerTube.thrown = ApiFailedMessage(httpStatus)

\* C14 amended: for a non-OK response extractFromInnerTube reads the body
\* and raises 'InnerTube API failed: <status>' inside its own try block; its
\* catch block logs that error (or the error of reading the body) and the
\* function returns null, the same outcome as for missing videoDetails.
C14_NotOkLoggedAndNull ==
  NotOk =>
    /\ innerTube.info = Null
    /\ innerTube.thrown = NoError
    /\ innerTube.caught \in {ApiFailedMessage(httpStatus), "TypeError: Failed to read body"}
    /\ EmbedStarted

C14_Witness ==
  /\ NotOk
  /\ httpStatus = 500
  /\ innerTube.caught = "InnerTube API failed: 500"
  /\ innerTube.info = Null

\* C15: when the response is OK and its JSON body has no videoDetails,
\* extractFromInnerTube returns null, parsePlayerResponse is not invoked
\* (its 'No video details found' is not raised) and no exception occurs, so
\* the caller starts the embed strategy.
C15_MissingDetailsIsSoftNull ==
  (pcInner = "returned" /\ responseData # Null /\ ~Has(responseData, "videoDetails"))
    => /\ innerTube.info = Null
       /\ innerTube.caught = NoError
       /\ innerTube.thrown = NoError
       /\ EmbedStarted

C15_Witness ==
  /\ pcInner = "returned"
  /\ httpStatus = 200
  /\ responseData = [streamingData |-> [formats |-> <<Format18>>]]
  /\ innerTube.caught = NoError
  /\ pc = "embed"

\* C16: once the first of timeout, load and error has been handled (the
\* iframe is detached), a later load or error event is a no-op: the promise
\* is not resolved again, the timeout callback does not run, and the later
\* handler raises no exception.
C16_LaterEventsAreNoOps ==
  [][ embed.iframe = "detached" =>
        /\ embed.promise = "resolved"
             => (embed'.promise = "resolved" /\ embed'.value = embed.value)
        /\ embed.timer # "fired" => embed'.timer # "fired"
        /\ embed.promise = "resolved" => embed'.escaped = embed.escaped ]_vars

\* C17: removeChild is executed exactly once per attached iframe, never on
\* an iframe that is already detached, on every path of the first event
\* that is handled, the exception path of the load handler included.
C17_RemovedExactlyOnce ==
  lateEvents = 0 =>
    /\ embed.notFound = 0
    /\ embed.iframe = "attached" => embed.removed = 0
    /\ embed.iframe = "detached" => embed.removed = 1

(***************************************************************************)
(* Properties of parsePlayerResponse.                                      *)
(***************************************************************************)
PrReturned == prResult.called /\ ~prResult.outcome.threw

\* the raw list of the input, empty when streamingData or the list is absent
RawList(list) ==
  IF Has(prInput, "streamingData") /\ Has(prInput.streamingData, list)
  THEN prInput.streamingData[list]
  ELSE <<>>

\* C18: parsePlayerResponse throws 'No video details found' exactly when the
\* input has no videoDetails; absent streamingData, adaptiveFormats or
\* formats give a VideoInfo with an empty or shorter formats list.
C18_ThrowsOnlyWithoutDetails ==
  prResult.called =>
    /\ prResult.outcome.threw <=> ~Has(prInput, "videoDetails")
    /\ prResult.outcome.threw => prResult.outcome.error = "No video details found"
    /\ (~prResult.outcome.threw /\ ~Has(prInput, "streamingData"))
         => prResult.outcome.value.formats = <<>>
    /\ ~prResult.outcome.threw
         => Len(prResult.outcome.value.formats)
              = Len(RawList("adaptiveFormats")) + Len(RawList("formats"))

C18_Witness ==
  /\ PrReturned
  /\ Has(prInput, "videoDetails")
  /\ ~Has(prInput, "streamingData")
  /\ prResult.outcome.value.formats = <<>>

\* the string form of the itags of the format pool
ItagString(format) == CASE format.itag = 18 -> "18" [] format.itag = 140 -> "140"

\* C19: the formats list holds the entries of adaptiveFormats in their
\* order, then the entries of formats in their order; each format_note
\* begins with 'adaptive' or 'progressive' accordingly; streamingData is the
\* raw streamingData.
C19_AdaptiveThenProgressive ==
  PrReturned =>
    LET out   == prResult.outcome.value
        adapt == RawList("adaptiveFormats")
        prog  == RawList("formats")
    IN  /\ Len(out.formats) = Len(adapt) + Len(prog)
        /\ \A i \in 1..Len(adapt) :
             /\ out.formats[i].format_id = ItagString(adapt[i])
             /\ SubSeq(out.formats[i].format_note, 1, 8) = "adaptive"
        /\ \A i \in 1..Len(prog) :
             /\ out.formats[Len(adapt) + i].format_id = ItagString(prog[i])
             /\ SubSeq(out.formats[Len(adapt) + i].format_note, 1, 11) = "progressive"
        /\ Has(prInput, "streamingData") => out.streamingData = prInput.streamingData
        /\ ~Has(prInput, "streamingData") => out.streamingData = UndefinedObject

C19_Witness ==
  /\ PrReturned
  /\ Has(prInput, "streamingData")
  /\ prInput.streamingData = [adaptiveFormats |-> <<Format140, Format18>>,
                              formats |-> <<Format18>>]
  /\ Len(prResult.outcome.value.formats) = 3
  /\ prResult.outcome.value.formats[2].format_id = "18"
  /\ prResult.outcome.value.formats[2].format_note = "adaptive - unknown"

\* the integer the claim gives for the lengthSeconds strings that are
\* enumerated: the parsed integer, 0 when the string does not parse
ClaimedDuration(lengthSeconds) ==
  CASE lengthSeconds = "125" -> 125
    [] lengthSeconds = "12abc" -> 12
    [] lengthSeconds = "-5" -> 0 - 5
    [] OTHER -> 0

\* C20: duration is a non-negative integer, the integer parsed from
\* lengthSeconds or 0 when it does not parse or is absent; thumbnail is the
\* url of the first entry of videoDetails.thumbnail.thumbnails, or '' when
\* a part of that path is absent.
C20_DurationAndThumbnail ==
  PrReturned =>
    LET out == prResult.outcome.value
        vd  == prInput.videoDetails
    IN  /\ out.duration \in Nat
        /\ out.duration = IF Has(vd, "lengthSeconds") THEN ClaimedDuration(vd.lengthSeconds)
                          ELSE 0
        /\ out.thumbnail =
             IF /\ Has(vd, "thumbnail") /\ Has(vd.thumbnail, "thumbnails")
                /\ Len(vd.thumbnail.thumbnails) > 0
                /\ Has(vd.thumbnail.thumbnails[1], "url")
             THEN vd.thumbnail.thumbnails[1].url
             ELSE ""

(***************************************************************************)
(* Properties of format_note and format_id.                                *)
(***************************************************************************)
\* the string form of the itags that are enumerated
ItagText(itag) == CASE itag = 0 -> "0" [] itag = 18 -> "18" [] itag = 140 -> "140"

FormatIdAsClaimed ==
  pfResult.value.format_id =
    IF Has(pfFormat, "itag") THEN ItagText(pfFormat.itag) ELSE "unknown"

\* C21 as stated: format_note is '<tag> - <label>' with the label
\* qualityLabel if present, else audioQuality if present, else 'unknown';
\* format_id is the string form of itag, 'unknown' when itag is absent.
C21_NoteByPresence ==
  pfResult.called =>
    /\ pfResult.value.format_note =
         pfType \o " - " \o
           (IF Has(pfFormat, "qualityLabel") THEN pfFormat.qualityLabel
            ELSE IF Has(pfFormat, "audioQuality") THEN pfFormat.audioQuality
            ELSE "unknown")
    /\ FormatIdAsClaimed

NonEmpty(o, f) == Has(o, f) /\ o[f] # ""

\* C21 amended: format_note is '<tag> - <label>' with the label
\* qualityLabel if present and not empty, else audioQuality if present and
\* not empty, else 'unknown'; format_id is the string form of itag,
\* 'unknown' when itag is absent.
C21_NoteByNonEmpty ==
  pfResult.called =>
    /\ pfType \in {"adaptive", "progressive"}
    /\ pfResult.value.format_note =
         pfType \o " - " \o
           (IF NonEmpty(pfFormat, "qualityLabel") THEN pfFormat.qualityLabel
            ELSE IF NonEmpty(pfFormat, "audioQuality") THEN pfFormat.audioQuality
            ELSE "unknown")
    /\ FormatIdAsClaimed

C21_Witness ==
  /\ pfResult.called
  /\ pfType = "adaptive"
  /\ pfFormat = [itag |-> 0, qualityLabel |-> "", audioQuality |-> "AUDIO_QUALITY_MEDIUM"]
  /\ pfResult.value.format_note = "adaptive - AUDIO_QUALITY_MEDIUM"
  /\ pfResult.value.format_id = "0"

(***************************************************************************)
(* Properties of a response without formats.                               *)
(***************************************************************************)
\* the response has no streamingData, or its format lists are absent or empty
NoStreamingFormats(data) ==
  \/ ~Has(data, "streamingData")
  \/ /\ Has(data.streamingData, "adaptiveFormats") => data.streamingData.adaptiveFormats = <<>>
     /\ Has(data.streamingData, "formats") => data.streamingData.formats = <<>>

\* C22: a 200 response of InnerTube with videoDetails and no streamingData
\* (or empty format lists) is a success: extractVideoInfo resolves with a
\* VideoInfo whose formats list is empty and no embed attempt is made.
C22_EmptyFormatsIsSuccess ==
  (/\ pcInner = "returned"
   /\ httpStatus = 200
   /\ responseData # Null
   /\ Has(responseData, "videoDetails")
   /\ NoStreamingFormats(responseData))
  => /\ pc = "resolved"
     /\ error = NoError
     /\ result # Null
     /\ result = innerTube.info
     /\ result.formats = <<>>
     /\ result.id = responseData.videoDetails.videoId
     /\ ~EmbedStarted
     /\ iframeCount = 0

C22_Witness ==
  /\ pc = "resolved"
  /\ httpStatus = 200
  /\ responseData = [videoDetails |-> DetailsV1]
  /\ result.formats = <<>>
  /\ iframeCount = 0

(***************************************************************************)
(* Range of getExtensionFromMime.                                          *)
(***************************************************************************)
\* C23: getExtensionFromMime returns one of 'mp4', 'webm', '3gp', 'unknown'
\* and never 'm4a': a mimeType containing 'audio/mp4' already matches the
\* 'mp4' test, one containing 'audio/webm' already matches an earlier test.
C23_NeverM4a ==
  pfResult.called =>
    /\ pfResult.value.ext \in {"mp4", "webm", "3gp", "unknown"}
    /\ pfResult.value.ext # "m4a"
    /\ (Has(pfFormat, "mimeType") /\ Includes(pfFormat.mimeType, "audio/mp4"))
         => pfResult.value.ext = "mp4"
    /\ (Has(pfFormat, "mimeType") /\ Includes(pfFormat.mimeType, "audio/webm"))
         => pfResult.value.ext \in {"mp4", "webm"}

C23_Witness ==
  /\ pfResult.called
  /\ Has(pfFormat, "mimeType")
  /\ pfFormat.mimeType = "audio/mp4; codecs=\"mp4a\""
  /\ pfResult.value.ext = "mp4"

(***************************************************************************)
(* Properties of the page.                                                 *)
(***************************************************************************)
\* C24: every handler that sets loading to true sets it back to false on
\* every path on which it ends: loading is true exactly while a call of
\* such a handler has not ended.
C24_LoadingFollowsCalls ==
  /\ ops = {} => loading = FALSE
  /\ ops # {} => loading = TRUE

C24_Witness ==
  /\ opCount = 1
  /\ ops = {}
  /\ loading = FALSE
  /\ videoInfo # Null
  /\ Has(videoInfo, "_browserInfo")
  /\ uiStatus = "Video info extracted successfully via browser method!"

\* the poller has told the user how the download ended
Reported(p) ==
  /\ p.pc = "stopped"
  /\ \/ p.last = "completed" /\ uiStatus = CompletedText(p.kind)
     \/ p.last = "failed" /\ uiError = FailedText(p.kind)

\* C25: a poller schedules its next poll exactly when its last response was
\* OK with status 'downloading' or 'starting'; after 'completed' or
\* 'failed' the final status or error is set; a poller that has stopped
\* (any other response) never polls again.
C25_PollsWhileInProgress ==
  /\ [](\A p \in pollers :
          /\ p.pc = "timer" => p.last \in {"downloading", "starting"}
          /\ p.pc = "fetch" => p.last \in {"none", "downloading", "starting"}
          /\ p.pc = "stopped" <=> p.last \notin {"none", "downloading", "starting"}
          /\ p.last \in Final => Reported(p))
  /\ [][\A p \in pollers :
          /\ p.pc = "stopped" => p \in pollers'
          /\ (p.pc = "fetch" /\ p \notin pollers')
               => \E q \in pollers' :
                    /\ q.kind = p.kind /\ q.id = p.id
                    /\ q.pc \in {"timer", "stopped"}
                    /\ q.pc = "timer" <=> q.last \in {"downloading", "starting"}]_vars

C25_Witness ==
  \E p \in pollers :
    /\ p.kind = "browser"
    /\ p.pc = "stopped"
    /\ p.last = "completed"
    /\ uiStatus = "Download completed: out.mp4"

\* C26: when every status request is answered and the download reaches
\* 'completed' or 'failed', the poller started for it eventually reports
\* that outcome, whatever the responses in between.
C26_OutcomeEventuallyReported ==
  <>(\A id \in DOMAIN backend : backend[id] \in Final)
    => <>(\A p \in pollers : Reported(p))

HasVideoId == PatternGroup(url, WatchPattern) # NoMatch

\* C27: outside live mode fetchVideoInfo requests /browser/extract first
\* when the url holds a video id, and /video/info exactly when the browser
\* extraction did not succeed; videoInfo is set from one source at most, and
\* a failure of the fallback sets error and leaves videoInfo null.
C27_BrowserFirstThenYtdlp ==
  /\ [](\A o \in ops :
          o.name = "fetchVideoInfo" =>
            /\ videoInfo = Null
            /\ o.pc = "live" => o.reqs = <<"/live/info">>
            /\ o.pc = "browser" => (HasVideoId /\ o.reqs = <<"/browser/extract">>)
            /\ o.pc = "ytdlp" => o.reqs = (IF HasVideoId
                                            THEN <<"/browser/extract", "/video/info">>
                                            ELSE <<"/video/info">>))
  /\ [][/\ \A o \in ops' :
             (o.name = "fetchVideoInfo" /\ ops = {}) =>
               o.pc = (IF mode = "live" THEN "live"
                       ELSE IF HasVideoId THEN "browser" ELSE "ytdlp")
        /\ \A o \in ops :
             /\ (o.name = "fetchVideoInfo" /\ o.pc = "browser" /\ o \notin ops') =>
                  \/ /\ ops' = {}
                     /\ videoInfo' # Null /\ Has(videoInfo', "_browserInfo")
                     /\ uiError' = uiError
                  \/ /\ \E q \in ops' : q.id = o.id /\ q.pc = "ytdlp"
                     /\ videoInfo' = Null
             /\ (o.name = "fetchVideoInfo" /\ o.pc = "ytdlp" /\ o \notin ops') =>
                  /\ ops' = {}
                  /\ \/ videoInfo' = YtdlpInfo /\ uiError' = uiError
                     \/ /\ videoInfo' = Null
                        /\ uiError' \in {"Failed to fetch video info", "Failed to fetch",
                                         "Unexpected end of JSON input"}]_vars

C27_Witness ==
  /\ HasVideoId
  /\ \E o \in ops : /\ o.name = "fetchVideoInfo"
                    /\ o.pc = "ytdlp"
                    /\ o.reqs = <<"/browser/extract", "/video/info">>
  /\ videoInfo = Null
  /\ loading

\* the browser-extracted info has a format with video
VideoBearing(info) ==
  /\ info # Null
  /\ Has(info, "_browserInfo")
  /\ \E i \in 1..Len(info["_browserInfo"].formats) : info["_browserInfo"].formats[i].has_video

\* C28: when /video/download is not OK and browser-extracted info with a
\* format that has video is available, downloadVideo requests
\* /browser/download before it reports 'Both yt-dlp and browser download
\* failed', a combined format included.
C28_BrowserTriedBeforeBothFailed ==
  [][\A o \in ops :
       (/\ o.name = "downloadVideo"
        /\ o \notin ops'
        /\ uiError' = "Both yt-dlp and browser download failed"
        /\ VideoBearing(o.videoInfo))
       => o.reqs = <<"/video/download", "/browser/download">>]_vars

\* C29: at most one call of a handler that sets loading is in flight at
\* any time, and at most one progress poller is polling at a time.
C29_OneCallOnePoller ==
  /\ Cardinality(ops) <= 1
  /\ Cardinality({p \in pollers : p.pc # "stopped"}) <= 1

====
